---- MODULE Spec2Model ----
(***************************************************************************)
(* Model of the binary Merkle-Patricia trie of pkg/trie (Node, Trie,       *)
(* trieStorer) over a content-addressed key-value store.                   *)
(*                                                                         *)
(* Field elements are represented as finite sequences of integers: a plain *)
(* number n is <<n>>, the Pedersen digest of a and b is the term           *)
(* <<-1>> \o a \o b (prefix notation, hence injective), and the sum of a   *)
(* digest h and a small number n is <<-2, n>> \o h.                        *)
(* Bit paths and sibling lists are tuples, built element by element.       *)
(***************************************************************************)
EXTENDS Integers, Sequences, FiniteSets, TLC

\* height of the trie (251 in the state processor), scaled down
Height == 3
\* leaf values range over 0..MaxVal
MaxVal == 2
\* number of operations applied in one behaviour
MaxOps == 3
\* number of operations run write by write in one behaviour
MaxRuns == 3
\* number of state updates in one behaviour
MaxUpdates == 2
\* roots whose persisted form is written and read back: 0 .. MaxRoot
MaxRoot == 40
\* bytes of a persisted counter (8 in the program), scaled down
U64Bytes == 2

VARIABLES root, storeH, storeP, ref, hist, run, kv, sync, hashes, codes, last, enc,
          ctor, replay, l1

vars ==
  <<root, storeH, storeP, ref, hist, run, kv, sync, hashes, codes, last, enc, ctor, replay, l1>>

\* the trie under test and the record of the calls made on it
trieVars == <<root, storeH, storeP, ref, hist, run>>

\* the database, the Synchronizer, the contract hash and code services, the
\* record of the last call, the persisted root under test, the constructor
\* behind trie.New, the two processors of a replay, and the two goroutines
\* of l1Sync
procVars == <<kv, sync, hashes, codes, last, enc, ctor, replay, l1>>

Keys == 0 .. (2 ^ Height - 1)
Vals == 0 .. MaxVal

----------------------------------------------------------------------------
\* Field elements and the Pedersen digest

Felt0 == <<0>>

FeltOf(n) == <<n>>

Digest(a, b) == <<-1>> \o a \o b

FeltAdd(h, n) == IF Len(h) = 1 THEN <<h[1] + n>> ELSE <<-2, n>> \o h

----------------------------------------------------------------------------
\* Bit paths (most significant bit first)

EmptyPath == <<>>

RECURSIVE PathBytes(_)
PathBytes(p) == IF Len(p) = 0 THEN 0
                ELSE 2 * PathBytes(SubSeq(p, 1, Len(p) - 1)) + p[Len(p)]

\* the low `length` bits of n
RECURSIVE NewPath(_, _)
NewPath(length, n) ==
  IF length = 0 THEN <<>> ELSE Append(NewPath(length - 1, n \div 2), n % 2)

PathGet(p, i) == p[i + 1] = 1

PathSet(p, i) == [p EXCEPT ![i + 1] = 1]

Walked(p, k) == SubSeq(p, k + 1, Len(p))

RECURSIVE longestCommonPrefix(_, _)
longestCommonPrefix(p, q) ==
  IF Len(p) = 0 \/ Len(q) = 0 \/ p[1] # q[1] THEN 0
  ELSE 1 + longestCommonPrefix(Tail(p), Tail(q))

----------------------------------------------------------------------------
\* Nodes

Nil == [isNil |-> TRUE, path |-> EmptyPath, bottom |-> Felt0]

Node(p, b) == [isNil |-> FALSE, path |-> p, bottom |-> b]

\* mutant of Hash: the path length is not added to the digest
HashNoLength(n) ==
  IF n.isNil THEN Felt0
  ELSE IF Len(n.path) = 0 THEN n.bottom
  ELSE Digest(n.bottom, FeltOf(PathBytes(n.path)))

Hash(n) ==
  IF n.isNil THEN Felt0
  ELSE IF Len(n.path) = 0 THEN n.bottom
  ELSE FeltAdd(Digest(n.bottom, FeltOf(PathBytes(n.path))), Len(n.path))

MarshalJSON(n) ==
  [length |-> Len(n.path), path |-> PathBytes(n.path), bottom |-> n.bottom]

\* mutant of UnmarshalJSON: the path bytes are not read back
UnmarshalJSONNoPath(j) == Node(NewPath(j.length, 0), j.bottom)

UnmarshalJSON(j) == Node(NewPath(j.length, j.path), j.bottom)

----------------------------------------------------------------------------
\* trieStorer: the two keyspaces of the key-value store

storeByH(sH, h, n) == (h :> MarshalJSON(n)) @@ sH

\* mutant of storeByP: the entry replaces what the keyspace held
storeByPAlone(sP, p, a, b) == (p :> <<a, b>>)

storeByP(sP, p, a, b) == (p :> <<a, b>>) @@ sP

\* mutant of retrieveByH: a missing node is reported as an invalid value
retrieveByHInvalid(sH, h) ==
  IF h \in DOMAIN sH THEN [err |-> "ok", node |-> UnmarshalJSON(sH[h])]
  ELSE [err |-> "invalid value", node |-> Nil]

retrieveByH(sH, h) ==
  IF h \in DOMAIN sH THEN [err |-> "ok", node |-> UnmarshalJSON(sH[h])]
  ELSE [err |-> "not found", node |-> Nil]

\* mutant of retrieveByP: the two halves of the stored value are swapped
retrieveByPSwapped(sP, p) ==
  IF p \notin DOMAIN sP THEN [err |-> "not found", left |-> Felt0, right |-> Felt0]
  ELSE IF Len(sP[p]) # 2 THEN [err |-> "invalid value", left |-> Felt0, right |-> Felt0]
  ELSE [err |-> "ok", left |-> sP[p][2], right |-> sP[p][1]]

retrieveByP(sP, p) ==
  IF p \notin DOMAIN sP THEN [err |-> "not found", left |-> Felt0, right |-> Felt0]
  ELSE IF Len(sP[p]) # 2 THEN [err |-> "invalid value", left |-> Felt0, right |-> Felt0]
  ELSE [err |-> "ok", left |-> sP[p][1], right |-> sP[p][2]]

EmptyStore == [h \in {} |-> Nil]

----------------------------------------------------------------------------
\* Trie

NoHash == <<>>

NilHash == <<>>

\* mutant of NewTrie: the error of the root lookup is dropped
NewTrieIgnoreErr(sH, rootHash) ==
  IF rootHash = NilHash THEN [err |-> "ok", root |-> Nil]
  ELSE [err |-> "ok", root |-> retrieveByH(sH, rootHash).node]

NewTrie(sH, rootHash) ==
  IF rootHash = NilHash THEN [err |-> "ok", root |-> Nil]
  ELSE LET r == retrieveByH(sH, rootHash)
       IN  IF r.err # "ok" THEN [err |-> r.err, root |-> Nil]
           ELSE [err |-> "ok", root |-> r.node]

RootHash(r) == IF r.isNil THEN Felt0 ELSE Hash(r)

\* mutant of EdgeMatches: a partial common prefix is taken for a match
EdgeMatchesPartial(curr, path, walked) ==
  longestCommonPrefix(curr.path, Walked(path, walked)) > 0

\* the edge node curr lies on the path of the key
EdgeMatches(curr, path, walked) ==
  longestCommonPrefix(curr.path, Walked(path, walked)) = Len(curr.path)

RECURSIVE GetWalk(_, _, _, _, _)
GetWalk(sH, sP, path, walked, curr) ==
  IF walked >= Height THEN [err |-> "ok", found |-> TRUE, val |-> curr.bottom]
  ELSE IF Len(curr.path) = 0 THEN
    IF curr.bottom = Felt0 THEN [err |-> "panic", found |-> FALSE, val |-> Felt0]
    ELSE LET pr == retrieveByP(sP, curr.bottom)
             next == IF PathGet(path, walked) THEN pr.right ELSE pr.left
             nd == retrieveByH(sH, next)
         IN  IF pr.err # "ok" THEN [err |-> pr.err, found |-> FALSE, val |-> Felt0]
             ELSE IF nd.err # "ok" THEN [err |-> nd.err, found |-> FALSE, val |-> Felt0]
             ELSE GetWalk(sH, sP, path, walked + 1, nd.node)
  ELSE IF EdgeMatches(curr, path, walked) THEN
    GetWalk(sH, sP, path, walked + Len(curr.path), Node(EmptyPath, curr.bottom))
  ELSE [err |-> "ok", found |-> FALSE, val |-> Felt0]

Get(r, sH, sP, key) ==
  IF r.isNil THEN [err |-> "ok", found |-> FALSE, val |-> Felt0]
  ELSE GetWalk(sH, sP, NewPath(Height, key), 0, r)

\* mutant of DivergingSibling: the edge itself instead of one step down it
DivergingSiblingWhole(curr) == Hash(curr)

\* sibling recorded where the key leaves the edge curr: the node one step
\* down the edge's path
DivergingSibling(curr) == Hash(Node(Walked(curr.path, 1), curr.bottom))

\* mutant of BinaryChildren: left and right exchanged
BinaryChildrenSwapped(path, i, sibling, hash) ==
  IF PathGet(path, i) THEN <<hash, sibling>> ELSE <<sibling, hash>>

\* (left, right) of the binary node built at bit i of the key
BinaryChildren(path, i, sibling, hash) ==
  IF PathGet(path, i) THEN <<sibling, hash>> ELSE <<hash, sibling>>

\* mutant of MaterializeSibling: the prepended bit is the key's own bit
MaterializeSiblingKeyBit(path, i, sibling) ==
  LET edgePath == NewPath(Len(sibling.path) + 1, PathBytes(sibling.path))
  IN  Node(IF PathGet(path, i) THEN PathSet(edgePath, 0) ELSE edgePath, sibling.bottom)

\* Delete: the sibling of the removed leaf, one bit longer, takes the place
\* of their parent
MaterializeSibling(path, i, sibling) ==
  LET edgePath == NewPath(Len(sibling.path) + 1, PathBytes(sibling.path))
  IN  Node(IF ~PathGet(path, i) THEN PathSet(edgePath, 0) ELSE edgePath, sibling.bottom)

\* siblings by bit position: position i is held at index i + 1
RECURSIVE NoSiblingsUpTo(_)
NoSiblingsUpTo(n) == IF n = 0 THEN <<>> ELSE Append(NoSiblingsUpTo(n - 1), NoHash)

NoSiblings == NoSiblingsUpTo(Height)

SiblingAt(siblings, i) == siblings[i + 1]

SetSibling(siblings, i, h) == [siblings EXCEPT ![i + 1] = h]

\* descent of Put: the siblings met on the way down
RECURSIVE PutWalk(_, _, _, _, _, _)
PutWalk(sH, sP, path, walked, curr, siblings) ==
  IF walked >= Height \/ curr.isNil THEN [err |-> "ok", siblings |-> siblings]
  ELSE IF Len(curr.path) = 0 THEN
    IF curr.bottom = Felt0 THEN [err |-> "panic", siblings |-> siblings]
    ELSE LET pr == retrieveByP(sP, curr.bottom)
             next == IF PathGet(path, walked) THEN pr.right ELSE pr.left
             sibling == IF PathGet(path, walked) THEN pr.left ELSE pr.right
             nd == retrieveByH(sH, next)
         IN  IF pr.err # "ok" THEN [err |-> pr.err, siblings |-> siblings]
             ELSE IF nd.err # "ok" THEN [err |-> nd.err, siblings |-> siblings]
             ELSE PutWalk(sH, sP, path, walked + 1, nd.node,
                          SetSibling(siblings, walked, sibling))
  ELSE LET lcp == longestCommonPrefix(curr.path, Walked(path, walked))
       IN  IF lcp = 0 THEN
             [err |-> "ok",
              siblings |-> SetSibling(siblings, walked, DivergingSibling(curr))]
           ELSE PutWalk(sH, sP, path, walked + lcp,
                        Node(Walked(curr.path, lcp), curr.bottom), siblings)

\* mutant of computeH: the hash is computed, the node is not stored
computeHNoStore(sH, node) == [hash |-> Hash(node), sH |-> sH]

computeH(sH, node) == [hash |-> Hash(node), sH |-> storeByH(sH, Hash(node), node)]

\* mutant of computeP: the preimage is stored with its halves exchanged
computePSwapped(sP, arg1, arg2) ==
  [p |-> Digest(arg1, arg2), sP |-> storeByP(sP, Digest(arg1, arg2), arg2, arg1)]

computeP(sP, arg1, arg2) ==
  [p |-> Digest(arg1, arg2), sP |-> storeByP(sP, Digest(arg1, arg2), arg1, arg2)]

\* one step of the reverse walk of Put, at bit i
\* mutant of PutStep: the binary node is built without storing its preimage
PutStepNoPreimage(path, siblings, i, curr, hash, sP) ==
  IF SiblingAt(siblings, i) # NoHash THEN
    LET lr == BinaryChildren(path, i, SiblingAt(siblings, i), hash)
        cp == computeP(sP, lr[1], lr[2])
    IN  [curr |-> Node(EmptyPath, cp.p), sP |-> sP]
  ELSE
    LET edgePath == NewPath(Len(curr.path) + 1, PathBytes(curr.path))
    IN  [curr |-> Node(IF PathGet(path, i) THEN PathSet(edgePath, 0) ELSE edgePath,
                       curr.bottom),
         sP |-> sP]

PutStep(path, siblings, i, curr, hash, sP) ==
  IF SiblingAt(siblings, i) # NoHash THEN
    LET lr == BinaryChildren(path, i, SiblingAt(siblings, i), hash)
        cp == computeP(sP, lr[1], lr[2])
    IN  [curr |-> Node(EmptyPath, cp.p), sP |-> cp.sP]
  ELSE
    LET edgePath == NewPath(Len(curr.path) + 1, PathBytes(curr.path))
    IN  [curr |-> Node(IF PathGet(path, i) THEN PathSet(edgePath, 0) ELSE edgePath,
                       curr.bottom),
         sP |-> sP]

RECURSIVE PutRebuild(_, _, _, _, _, _, _)
PutRebuild(path, siblings, i, curr, hash, sH, sP) ==
  IF i < 0 THEN [err |-> "ok", root |-> curr, sH |-> sH, sP |-> sP]
  ELSE LET st == PutStep(path, siblings, i, curr, hash, sP)
           ch == computeH(sH, st.curr)
       IN  PutRebuild(path, siblings, i - 1, st.curr, ch.hash, ch.sH, st.sP)

Put(r, sH, sP, key, value) ==
  LET path == NewPath(Height, key)
      w == PutWalk(sH, sP, path, 0, r, NoSiblings)
      leaf == Node(EmptyPath, value)
      ch == computeH(sH, leaf)
  IN  IF w.err # "ok" THEN [err |-> w.err, root |-> r, sH |-> sH, sP |-> sP]
      ELSE PutRebuild(path, w.siblings, Len(path) - 1, leaf, ch.hash, ch.sH, sP)

\* descent of Delete: the siblings met on the way down, and whether the
\* traversal ended on a node (curr # nil)
RECURSIVE DeleteWalk(_, _, _, _, _, _)
DeleteWalk(sH, sP, path, walked, curr, siblings) ==
  IF walked >= Height \/ curr.isNil THEN
    [err |-> "ok", siblings |-> siblings, currNil |-> curr.isNil]
  ELSE IF Len(curr.path) = 0 THEN
    IF curr.bottom = Felt0 THEN [err |-> "panic", siblings |-> siblings, currNil |-> FALSE]
    ELSE LET pr == retrieveByP(sP, curr.bottom)
             next == IF PathGet(path, walked) THEN pr.right ELSE pr.left
             sibling == IF PathGet(path, walked) THEN pr.left ELSE pr.right
             nd == retrieveByH(sH, next)
         IN  IF pr.err # "ok" THEN [err |-> pr.err, siblings |-> siblings, currNil |-> FALSE]
             ELSE IF nd.err # "ok" THEN
               [err |-> nd.err, siblings |-> siblings, currNil |-> FALSE]
             ELSE DeleteWalk(sH, sP, path, walked + 1, nd.node,
                             SetSibling(siblings, walked, sibling))
  ELSE LET lcp == longestCommonPrefix(curr.path, Walked(path, walked))
       IN  IF lcp = 0 THEN
             DeleteWalk(sH, sP, path, walked + lcp, Nil,
                        SetSibling(siblings, walked, DivergingSibling(curr)))
           ELSE DeleteWalk(sH, sP, path, walked + lcp,
                           Node(Walked(curr.path, lcp), curr.bottom), siblings)

\* mutant of DeleteStep: the sibling takes the parent's place as it is, without
\* the bit that led to it
DeleteStepSiblingAsIs(path, siblings, i, curr, hash, sH, sP) ==
  IF SiblingAt(siblings, i) # NoHash THEN
    IF curr.isNil THEN
      LET sb == retrieveByH(sH, SiblingAt(siblings, i))
      IN  IF sb.err # "ok" THEN [err |-> sb.err, skip |-> FALSE, curr |-> curr, sP |-> sP]
          ELSE [err |-> "ok", skip |-> FALSE,
                curr |-> sb.node, sP |-> sP]
    ELSE
      LET lr == BinaryChildren(path, i, SiblingAt(siblings, i), hash)
          cp == computeP(sP, lr[1], lr[2])
      IN  [err |-> "ok", skip |-> FALSE, curr |-> Node(EmptyPath, cp.p), sP |-> cp.sP]
  ELSE IF ~curr.isNil THEN
    LET edgePath == NewPath(Len(curr.path) + 1, PathBytes(curr.path))
    IN  [err |-> "ok", skip |-> FALSE,
         curr |-> Node(IF PathGet(path, i) THEN PathSet(edgePath, 0) ELSE edgePath,
                       curr.bottom),
         sP |-> sP]
  ELSE [err |-> "ok", skip |-> TRUE, curr |-> curr, sP |-> sP]

\* one step of the reverse walk of Delete, at bit i; skip means `continue`
DeleteStep(path, siblings, i, curr, hash, sH, sP) ==
  IF SiblingAt(siblings, i) # NoHash THEN
    IF curr.isNil THEN
      LET sb == retrieveByH(sH, SiblingAt(siblings, i))
      IN  IF sb.err # "ok" THEN [err |-> sb.err, skip |-> FALSE, curr |-> curr, sP |-> sP]
          ELSE [err |-> "ok", skip |-> FALSE,
                curr |-> MaterializeSibling(path, i, sb.node), sP |-> sP]
    ELSE
      LET lr == BinaryChildren(path, i, SiblingAt(siblings, i), hash)
          cp == computeP(sP, lr[1], lr[2])
      IN  [err |-> "ok", skip |-> FALSE, curr |-> Node(EmptyPath, cp.p), sP |-> cp.sP]
  ELSE IF ~curr.isNil THEN
    LET edgePath == NewPath(Len(curr.path) + 1, PathBytes(curr.path))
    IN  [err |-> "ok", skip |-> FALSE,
         curr |-> Node(IF PathGet(path, i) THEN PathSet(edgePath, 0) ELSE edgePath,
                       curr.bottom),
         sP |-> sP]
  ELSE [err |-> "ok", skip |-> TRUE, curr |-> curr, sP |-> sP]

\* r0 is the root before the call: an error leaves t.root unassigned
RECURSIVE DeleteRebuild(_, _, _, _, _, _, _, _)
DeleteRebuild(r0, path, siblings, i, curr, hash, sH, sP) ==
  IF i < 0 THEN [err |-> "ok", root |-> curr, sH |-> sH, sP |-> sP]
  ELSE LET st == DeleteStep(path, siblings, i, curr, hash, sH, sP)
           ch == computeH(sH, st.curr)
       IN  IF st.err # "ok" THEN [err |-> st.err, root |-> r0, sH |-> sH, sP |-> sP]
           ELSE IF st.skip THEN
             DeleteRebuild(r0, path, siblings, i - 1, curr, hash, sH, sP)
           ELSE DeleteRebuild(r0, path, siblings, i - 1, st.curr, ch.hash, ch.sH, st.sP)

\* mutant of Delete: the rebuild runs although the key was not found
DeleteNoNilCheck(r, sH, sP, key) ==
  LET path == NewPath(Height, key)
      w == DeleteWalk(sH, sP, path, 0, r, NoSiblings)
  IN  IF w.err # "ok" THEN [err |-> w.err, root |-> r, sH |-> sH, sP |-> sP]
      ELSE DeleteRebuild(r, path, w.siblings, Len(path) - 1, Nil, NoHash, sH, sP)

\* mutant of Delete: a failed descent leaves the trie without its root
DeleteDropsRoot(r, sH, sP, key) ==
  LET path == NewPath(Height, key)
      w == DeleteWalk(sH, sP, path, 0, r, NoSiblings)
  IN  IF w.err # "ok" THEN [err |-> w.err, root |-> Nil, sH |-> sH, sP |-> sP]
      ELSE IF w.currNil THEN
        [err |-> "trying to delete unexistent key", root |-> r, sH |-> sH, sP |-> sP]
      ELSE DeleteRebuild(r, path, w.siblings, Len(path) - 1, Nil, NoHash, sH, sP)

Delete(r, sH, sP, key) ==
  LET path == NewPath(Height, key)
      w == DeleteWalk(sH, sP, path, 0, r, NoSiblings)
  IN  IF w.err # "ok" THEN [err |-> w.err, root |-> r, sH |-> sH, sP |-> sP]
      ELSE IF w.currNil THEN
        [err |-> "trying to delete unexistent key", root |-> r, sH |-> sH, sP |-> sP]
      ELSE DeleteRebuild(r, path, w.siblings, Len(path) - 1, Nil, NoHash, sH, sP)

----------------------------------------------------------------------------
\* State machine: one trie handle on one store; ref is the key -> value map
\* the trie is meant to hold (-1: absent) and hist the operations applied.

NoKey == 0 - 1

Absent == 0 - 1

\* a root hash under which no node is ever stored
MissingHash == FeltAdd(Digest(Felt0, Felt0), Height + 1)

OpenArgs == {"nil", "zero", "root", "missing"}

OpenHash(arg) ==
  CASE arg = "nil" -> NilHash
    [] arg = "zero" -> Felt0
    [] arg = "root" -> RootHash(root)
    [] OTHER -> MissingHash

\* had: the key was in the map before the operation
Entry(op, key, val, arg, err, r) ==
  [op |-> op, key |-> key, val |-> val, arg |-> arg, err |-> err, rh |-> RootHash(r),
   had |-> IF key = NoKey THEN FALSE ELSE ref[key] # Absent]

----------------------------------------------------------------------------
\* Persisted counters and the persisted state root (pkg/starknet/utils.go)

ByteValues == 2 ^ 8

\* a database value that is not there
NilBytes == <<0 - 1>>

\* binary.BigEndian.PutUint64, on U64Bytes bytes
RECURSIVE PutUint64(_, _)
PutUint64(n, len) ==
  IF len = 0 THEN <<>> ELSE Append(PutUint64(n \div ByteValues, len - 1), n % ByteValues)

\* the big-endian number held by a byte string
RECURSIVE SetBytes(_)
SetBytes(b) ==
  IF Len(b) = 0 THEN 0
  ELSE ByteValues * SetBytes(SubSeq(b, 1, Len(b) - 1)) + b[Len(b)]

getNumericValueFromDB(value) ==
  IF value = NilBytes THEN [err |-> "ok", n |-> 0]
  ELSE IF Len(value) < U64Bytes THEN [err |-> "unexpected EOF", n |-> 0]
  ELSE [err |-> "ok", n |-> SetBytes(SubSeq(value, 1, U64Bytes))]

\* mutant of updateNumericValueFromDB: the value is stored as given
updateNumericValueAsIs(value) == PutUint64(value % (ByteValues ^ U64Bytes), U64Bytes)

\* the bytes that updateNumericValueFromDB puts under the key
updateNumericValueFromDB(value) ==
  PutUint64((value + 1) % (ByteValues ^ U64Bytes), U64Bytes)

HexDigits == <<"0", "1", "2", "3", "4", "5", "6", "7", "8", "9", "a", "b", "c", "d", "e", "f">>

\* the digits of n > 0 in base 16, as a sequence of characters
RECURSIVE Text16(_)
Text16(n) == IF n = 0 THEN <<>> ELSE Append(Text16(n \div 16), HexDigits[(n % 16) + 1])

\* Felt.Hex of the felt n
Hex(n) == <<"0", "x">> \o (IF n = 0 THEN <<"0">> ELSE Text16(n))

RECURSIVE remove0xFrom(_)
remove0xFrom(str) ==
  IF Len(str) = 0 THEN <<>>
  ELSE IF str[1] \in {"0", "x"} THEN remove0xFrom(Tail(str))
  ELSE str

\* mutant of remove0x: nothing stands for the empty answer
remove0xNoZero(str) == remove0xFrom(str)

remove0x(str) == IF Len(remove0xFrom(str)) = 0 THEN <<"0">> ELSE remove0xFrom(str)

\* the byte of a character of a hexadecimal string
CharByte(c) ==
  CASE c = "x" -> 120
    [] c \in {"a", "b", "c", "d", "e", "f"} ->
         96 + CHOOSE i \in 1 .. 6 : HexDigits[10 + i] = c
    [] OTHER -> 47 + CHOOSE i \in 1 .. 10 : HexDigits[i] = c

\* []byte(str)
RECURSIVE StringBytes(_)
StringBytes(str) ==
  IF Len(str) = 0 THEN <<>>
  ELSE Append(StringBytes(SubSeq(str, 1, Len(str) - 1)), CharByte(str[Len(str)]))

\* types.BytesToFelt on a byte string of no more than the felt length
BytesToFelt(b) == IF b = NilBytes THEN 0 ELSE SetBytes(b)

\* updateState: the value put under StateRootKey for the root rootFelt
StateRootValue(rootFelt) == StringBytes(remove0x(Hex(rootFelt)))

\* updateState: the root hash the global trie is loaded at, from the value
\* found under StateRootKey
StoredRootFelt(value) == BytesToFelt(value)

----------------------------------------------------------------------------
\* The Synchronizer and its database (pkg/db/kvStorer.go)

\* contract addresses, contract hashes, storage slots and values of the
\* state updates
Addrs == {1, 2}
ContractHashes == {1, 2}
Slots == {0, 1}
SlotVals == {0, 1}

\* no contract hash stored for the address
NoContractHash == 0

\* no state root given with the update (the empty string)
NoStateRoot == <<>>

\* hashOk: the contract hash of the entry is a hexadecimal number
DeployedLists ==
  {<<>>} \cup {<<[address |-> a, contractHash |-> h, hashOk |-> ok]>> :
                 a \in Addrs, h \in ContractHashes, ok \in BOOLEAN}

\* the storage diffs in the order in which the range over the map visits them
\* valueOk: the value of the slot is a hexadecimal number
StorageLists ==
  {<<>>} \cup {<<[address |-> a, slots |-> <<[key |-> k, value |-> v, valueOk |-> ok]>>]>> :
                 a \in Addrs, k \in Slots, v \in SlotVals, ok \in BOOLEAN}

StateDiffs == [DeployedContracts : DeployedLists, StorageDiffs : StorageLists]

\* the leaf of the state trie for a contract: h(h(h(contract_hash, storage_root), 0), 0)
contractState(contractHash, storageRoot) ==
  Digest(Digest(Digest(contractHash, storageRoot), Felt0), Felt0)

\* the two keyspaces of one trie in the database
EmptyTrieStore == [sH |-> EmptyStore, sP |-> EmptyStore]

\* the database: the state trie, the storage tries by prefix, the counter,
\* and what updateState of pkg/starknet/utils.go keeps besides the nodes under
\* the prefix "state": the storage root under each contract state, and the
\* value under StateRootKey
EmptyKV ==
  [state |-> EmptyTrieStore, storage |-> [a \in Addrs |-> EmptyTrieStore],
   latest |-> NilBytes, leaves |-> EmptyStore, stateRoot |-> NilBytes]

\* NewSynchronizer: empty tries in memory, the iterator of apiSync as read
\* from the database
NewSynchronizer(db) ==
  [stateTrie |-> Nil, storageTries |-> [a \in Addrs |-> Nil], pc |-> "fetch",
   blockIterator |-> getNumericValueFromDB(db.latest).n, n |-> 0]

NoCall ==
  [op |-> "", outcome |-> "", block |-> 0, calls |-> 0, deployed |-> <<>>,
   storage |-> <<>>, log |-> <<>>, muts |-> <<>>, commitment |-> Felt0,
   kv |-> EmptyKV, hashes |-> [a \in Addrs |-> NoContractHash]]

\* the persisted root under test: not yet written
NoRootTest == [pc |-> "idle", root |-> 0, stored |-> NilBytes, loaded |-> 0]

\* no fact
NoFact == 0

\* l1Sync as it starts: s.facts and s.blockNumber as NewSynchronizer made
\* them, the GpsVerifier dictionary empty, s.lock free, the ticker goroutine
\* (tpc) before a tick and the event loop (epc) before an event; received,
\* consumed and unlocked record what the two did
NoL1 ==
  [facts |-> <<>>, blockNumber |-> 0, gps |-> {}, lock |-> "free",
   tpc |-> "tick", epc |-> "recv", pending |-> NoFact,
   received |-> <<>>, consumed |-> <<>>, unlocked |-> {}]

\* the two processors of a replay, before the first diff
NoReplay ==
  [n |-> 0,
   runs |-> [p \in {1, 2} |->
               [kv |-> EmptyKV, sync |-> NewSynchronizer(EmptyKV),
                hashes |-> [a \in Addrs |-> NoContractHash],
                outcome |-> "", commitment |-> Felt0, visited |-> 0, reversed |-> FALSE]]]

InitProc ==
  /\ kv = EmptyKV
  /\ sync = NewSynchronizer(EmptyKV)
  /\ hashes = [a \in Addrs |-> NoContractHash]
  /\ codes = {}
  /\ last = NoCall
  /\ enc = NoRootTest
  /\ ctor = "NewTrie"
  /\ replay = NoReplay
  /\ l1 = NoL1

----------------------------------------------------------------------------
\* Specification of the trie operations

\* a Put or Delete in progress: pc is the place in the code, i the bit of
\* the reverse walk, n the number of calls that have returned
Idle(n) ==
  [pc |-> "idle", op |-> "", path |-> EmptyPath, siblings |-> NoSiblings, i |-> 0,
   curr |-> Nil, hash |-> NoHash, n |-> n]

Init ==
  /\ root = Nil
  /\ storeH = EmptyStore
  /\ storeP = EmptyStore
  /\ ref = [k \in Keys |-> Absent]
  /\ hist = <<>>
  /\ run = Idle(0)
  /\ InitProc

PutAct ==
  \E k \in Keys, v \in Vals :
    LET res == Put(root, storeH, storeP, k, FeltOf(v))
    IN  /\ Len(hist) < MaxOps
        /\ root' = res.root
        /\ storeH' = res.sH
        /\ storeP' = res.sP
        /\ ref' = IF res.err = "ok" THEN [ref EXCEPT ![k] = v] ELSE ref
        /\ hist' = Append(hist, Entry("put", k, v, "", res.err, res.root))
        /\ UNCHANGED <<run, procVars>>

DeleteAct ==
  \E k \in Keys :
    LET res == Delete(root, storeH, storeP, k)
    IN  /\ Len(hist) < MaxOps
        /\ root' = res.root
        /\ storeH' = res.sH
        /\ storeP' = res.sP
        /\ ref' = IF res.err = "ok" THEN [ref EXCEPT ![k] = Absent] ELSE ref
        /\ hist' = Append(hist, Entry("delete", k, Absent, "", res.err, res.root))
        /\ UNCHANGED <<run, procVars>>

\* a new trie handle is constructed on the same store; on success it
\* replaces the current one
OpenAct ==
  \E arg \in OpenArgs :
    LET res == NewTrie(storeH, OpenHash(arg))
        r == IF res.err = "ok" THEN res.root ELSE root
    IN  /\ Len(hist) < MaxOps
        /\ root' = r
        /\ ref' = IF res.err = "ok" /\ arg # "root" THEN [k \in Keys |-> Absent] ELSE ref
        /\ hist' = Append(hist, Entry("open", NoKey, Absent, arg, res.err, r))
        /\ UNCHANGED <<storeH, storeP, run, procVars>>

Next == PutAct \/ DeleteAct \/ OpenAct

Spec == Init /\ [][Next]_vars

----------------------------------------------------------------------------
\* Put and Delete, one store write at a time

\* Put up to the reverse walk: the descent, then the leaf is built
BeginPut ==
  \E k \in Keys, v \in Vals :
    LET path == NewPath(Height, k)
        w == PutWalk(storeH, storeP, path, 0, root, NoSiblings)
    IN  /\ run.pc = "idle" /\ run.n < MaxRuns
        /\ run' = IF w.err # "ok" THEN Idle(run.n + 1)
                  ELSE [pc |-> "leaf", op |-> "put", path |-> path,
                        siblings |-> w.siblings, i |-> Len(path) - 1,
                        curr |-> Node(EmptyPath, FeltOf(v)), hash |-> NoHash, n |-> run.n]
        /\ UNCHANGED <<root, storeH, storeP, ref, hist, procVars>>

\* Delete up to the reverse walk: the descent, the check that the key was
\* found, curr = nil
BeginDelete ==
  \E k \in Keys :
    LET path == NewPath(Height, k)
        w == DeleteWalk(storeH, storeP, path, 0, root, NoSiblings)
    IN  /\ run.pc = "idle" /\ run.n < MaxRuns
        /\ run' = IF w.err # "ok" \/ w.currNil THEN Idle(run.n + 1)
                  ELSE [pc |-> "node", op |-> "delete", path |-> path,
                        siblings |-> w.siblings, i |-> Len(path) - 1,
                        curr |-> Nil, hash |-> NoHash, n |-> run.n]
        /\ UNCHANGED <<root, storeH, storeP, ref, hist, procVars>>

\* where the reverse walk goes on after bit i
AfterBit(i) == IF i - 1 < 0 THEN "root" ELSE "node"

\* Put: computeH of the leaf
WriteLeaf ==
  LET ch == computeH(storeH, run.curr)
  IN  /\ run.pc = "leaf"
      /\ storeH' = ch.sH
      /\ run' = [run EXCEPT !.hash = ch.hash,
                            !.pc = IF run.i < 0 THEN "root" ELSE "node"]
      /\ UNCHANGED <<root, storeP, ref, hist, procVars>>

\* the body of the reverse walk of Put up to computeH: the node of bit i is
\* built, computeP stores the preimage of a binary node
BuildPut ==
  LET st == PutStep(run.path, run.siblings, run.i, run.curr, run.hash, storeP)
  IN  /\ run.pc = "node" /\ run.op = "put"
      /\ storeP' = st.sP
      /\ run' = [run EXCEPT !.curr = st.curr, !.pc = "hash"]
      /\ UNCHANGED <<root, storeH, ref, hist, procVars>>

\* the same for Delete; an error returns, `continue` goes to the next bit
BuildDelete ==
  LET st == DeleteStep(run.path, run.siblings, run.i, run.curr, run.hash, storeH, storeP)
  IN  /\ run.pc = "node" /\ run.op = "delete"
      /\ storeP' = st.sP
      /\ run' = IF st.err # "ok" THEN Idle(run.n + 1)
                ELSE IF st.skip THEN [run EXCEPT !.i = run.i - 1, !.pc = AfterBit(run.i)]
                ELSE [run EXCEPT !.curr = st.curr, !.pc = "hash"]
      /\ UNCHANGED <<root, storeH, ref, hist, procVars>>

\* computeH at the end of the body of the reverse walk
WriteNode ==
  LET ch == computeH(storeH, run.curr)
  IN  /\ run.pc = "hash"
      /\ storeH' = ch.sH
      /\ run' = [run EXCEPT !.hash = ch.hash, !.i = run.i - 1, !.pc = AfterBit(run.i)]
      /\ UNCHANGED <<root, storeP, ref, hist, procVars>>

\* t.root = curr; the call returns
SetRoot ==
  /\ run.pc = "root"
  /\ root' = run.curr
  /\ run' = Idle(run.n + 1)
  /\ UNCHANGED <<storeH, storeP, ref, hist, procVars>>

NextWrite ==
  BeginPut \/ BeginDelete \/ WriteLeaf \/ BuildPut \/ BuildDelete \/ WriteNode \/ SetRoot

SpecWrites == Init /\ [][NextWrite]_vars

----------------------------------------------------------------------------
\* API sync of the Synchronizer: updateStateForOneBlock and updateState

\* storeContractHash / loadContractHash: the contract hash service, which is
\* not given the database transaction
storeContractHash(hs, address, contractHash) == [hs EXCEPT ![address] = contractHash]

loadContractHash(hs, address) == hs[address]

\* Put on a trie with root t over the keyspaces st; the caller looks at no
\* result
TriePut(t, st, key, value) ==
  CHOOSE r \in {[stop |-> IF res.err = "panic" THEN "panic: reached an empty node" ELSE "",
                 root |-> res.root, store |-> [sH |-> res.sH, sP |-> res.sP]] :
                res \in {Put(t, st.sH, st.sP, key, value)}} : TRUE

\* the state of a running updateState: the database as the open transaction
\* sees it, the tries in memory, the contract hashes, and why it stopped
Running(db, s, hs) ==
  [db |-> db, stateTrie |-> s.stateTrie, storageTries |-> s.storageTries,
   hashes |-> hs, stop |-> "", log |-> <<>>, txn |-> "open", muts |-> <<>>]

\* a Put on the state trie or on a storage trie, and whether the transaction
\* of the database was open when it was made
Mutation(w, trie) == Append(w.muts, [trie |-> trie, txn |-> w.txn])

\* mutant of PutContractState: the storage root is left out of the leaf
PutContractStateNoRoot(w, address, contractHash) ==
  LET value == contractState(FeltOf(contractHash), Felt0)
  IN  CHOOSE r \in {[w EXCEPT !.stateTrie = p.root, !.db.state = p.store, !.stop = p.stop,
                               !.muts = Mutation(w, "state")] :
                    p \in {TriePut(w.stateTrie, w.db.state, address, value)}} : TRUE

\* s.stateTrie.Put(address, contractState(contractHash, storageRoot))
PutContractState(w, address, contractHash) ==
  LET value == contractState(FeltOf(contractHash), RootHash(w.storageTries[address]))
  IN  CHOOSE r \in {[w EXCEPT !.stateTrie = p.root, !.db.state = p.store, !.stop = p.stop,
                               !.muts = Mutation(w, "state")] :
                    p \in {TriePut(w.stateTrie, w.db.state, address, value)}} : TRUE

\* the body of the loop over update.DeployedContracts
DeployContract(w, e) ==
  IF w.stop # "" THEN w
  ELSE IF ~e.hashOk THEN
    [w EXCEPT !.stop = "panic: Couldn't get contract hash",
              !.log = Append(w.log, <<"deploy", e.address>>)]
  ELSE PutContractState(
         [w EXCEPT !.hashes = storeContractHash(w.hashes, e.address, e.contractHash),
                   !.log = Append(w.log, <<"deploy", e.address>>)],
         e.address, e.contractHash)

\* the loop; each pass is evaluated once, on the value the pass before gave
RECURSIVE DeployContracts(_, _, _)
DeployContracts(w, list, i) ==
  IF i > Len(list) THEN w
  ELSE CHOOSE r \in {DeployContracts(w1, list, i + 1) : w1 \in {DeployContract(w, list[i])}} :
         TRUE

\* the body of the loop over the storage slots of one address
PutSlot(w, address, slot) ==
  IF w.stop # "" THEN w
  ELSE IF ~slot.valueOk THEN [w EXCEPT !.stop = "panic: Couldn't get the contract Hash"]
  ELSE CHOOSE r \in {[w EXCEPT !.storageTries[address] = p.root,
                                !.db.storage[address] = p.store, !.stop = p.stop,
                                !.muts = Mutation(w, "storage")] :
                      p \in {TriePut(w.storageTries[address], w.db.storage[address],
                                     slot.key, FeltOf(slot.value))}} : TRUE

RECURSIVE PutSlots(_, _, _, _)
PutSlots(w, address, slots, i) ==
  IF i > Len(slots) THEN w
  ELSE CHOOSE r \in {PutSlots(w1, address, slots, i + 1) :
                       w1 \in {PutSlot(w, address, slots[i])}} : TRUE

\* the body of the loop over update.StorageDiffs
StorageDiff(w, e) ==
  IF w.stop # "" THEN w
  ELSE CHOOSE r \in {IF w1.stop # "" THEN w1
                     ELSE PutContractState(w1, e.address,
                                           loadContractHash(w1.hashes, e.address)) :
                     w1 \in {PutSlots([w EXCEPT !.log = Append(w.log, <<"storage", e.address>>)],
                                      e.address, e.slots, 1)}} : TRUE

\* mutant of ApplyStorageDiffs: only the address visited first is applied
ApplyStorageDiffsFirst(w, list, i) ==
  IF i > Len(list) THEN w ELSE StorageDiff(w, list[i])

RECURSIVE ApplyStorageDiffs(_, _, _)
ApplyStorageDiffs(w, list, i) ==
  IF i > Len(list) THEN w
  ELSE CHOOSE r \in {ApplyStorageDiffs(w1, list, i + 1) : w1 \in {StorageDiff(w, list[i])}} :
         TRUE

\* Synchronizer.updateState up to the comparison of the roots: the diff
\* applied inside the transaction
ApplyDiff(db, s, hs, update) ==
  CHOOSE r \in {ApplyStorageDiffs(w1, update.StorageDiffs, 1) :
                w1 \in {DeployContracts(Running(db, s, hs), update.DeployedContracts, 1)}} :
    TRUE

\* the comparison of the root of the state trie with the state root that
\* came with the update
CompareRoots(w, stateRoot) ==
  IF w.stop # "" THEN w
  ELSE IF stateRoot # NoStateRoot /\ RootHash(w.stateTrie) # stateRoot THEN
    [w EXCEPT !.stop = "panic: stateRoot not equal to the one provided"]
  ELSE w

\* the state root that comes with the update: none, the root that the diff
\* gives, or another one
GivenRoots(commitment) == {NoStateRoot, commitment, MissingHash}

\* updateAbiAndCode: the code of the deployed contracts, when it is fetched
StoreCodes(cs, list, fetched) ==
  IF fetched THEN cs \cup {list[i].address : i \in 1 .. Len(list)} ELSE cs

\* updateStateForOneBlock up to the return of updateState: the update of
\* block blockIterator is fetched and applied in one transaction, which is
\* rolled back before a panic and committed otherwise
UpdateState ==
  /\ sync.pc = "fetch" /\ sync.n < MaxUpdates
  /\ \E update \in StateDiffs, fetched \in BOOLEAN :
       \E applied \in {ApplyDiff(kv, sync, hashes, update)} :
         \E stateRoot \in GivenRoots(RootHash(applied.stateTrie)) :
           \E w \in {CompareRoots(applied, stateRoot)} :
             /\ hashes' = w.hashes
             /\ kv' = IF w.stop # "" THEN kv ELSE w.db
             /\ codes' = IF w.stop # "" THEN codes
                         ELSE StoreCodes(codes, update.DeployedContracts, fetched)
             /\ sync' = IF w.stop # "" THEN [sync EXCEPT !.pc = "dead", !.n = sync.n + 1]
                        ELSE [sync EXCEPT !.stateTrie = w.stateTrie,
                                          !.storageTries = w.storageTries,
                                          !.pc = "save", !.n = sync.n + 1]
             /\ last' = [op |-> "updateState",
                         outcome |-> IF w.stop # "" THEN w.stop ELSE "ok",
                         block |-> sync.blockIterator, calls |-> 0,
                         deployed |-> update.DeployedContracts,
                         storage |-> update.StorageDiffs, log |-> w.log,
                         muts |-> w.muts, commitment |-> RootHash(w.stateTrie),
                         kv |-> kv, hashes |-> hashes]
             /\ UNCHANGED <<trieVars, enc, ctor, replay, l1>>

\* mutant of FetchNothing: the next block number is returned although
\* nothing was fetched
FetchNothingAdvances ==
  \E why \in {"Couldn't get state update", "same block hash"} :
    /\ sync.pc = "fetch" /\ sync.n < MaxUpdates
    /\ last' = [NoCall EXCEPT !.op = "fetch", !.outcome = why,
                              !.block = sync.blockIterator, !.kv = kv, !.hashes = hashes]
    /\ sync' = [sync EXCEPT !.n = sync.n + 1, !.blockIterator = sync.blockIterator + 1]
    /\ UNCHANGED <<trieVars, kv, hashes, codes, enc, ctor, replay, l1>>

\* updateStateForOneBlock when the update cannot be fetched or has the hash
\* of the last block: the arguments are returned
FetchNothing ==
  \E why \in {"Couldn't get state update", "same block hash"} :
    /\ sync.pc = "fetch" /\ sync.n < MaxUpdates
    /\ last' = [NoCall EXCEPT !.op = "fetch", !.outcome = why,
                              !.block = sync.blockIterator, !.kv = kv, !.hashes = hashes]
    /\ sync' = [sync EXCEPT !.n = sync.n + 1]
    /\ UNCHANGED <<trieVars, kv, hashes, codes, enc, ctor, replay, l1>>

\* updateStateForOneBlock after updateState: the counter is put and
\* committed in a transaction of its own; a failed put is logged
SaveLatest ==
  \E putOk \in BOOLEAN :
    /\ sync.pc = "save"
    /\ kv' = IF putOk THEN [kv EXCEPT !.latest = updateNumericValueFromDB(sync.blockIterator)]
             ELSE kv
    /\ sync' = [sync EXCEPT !.pc = "fetch", !.blockIterator = sync.blockIterator + 1]
    /\ last' = [NoCall EXCEPT !.op = "saveLatest",
                              !.outcome = IF putOk THEN "ok" ELSE "Couldn't save latest block queried",
                              !.block = sync.blockIterator, !.kv = kv, !.hashes = hashes]
    /\ UNCHANGED <<trieVars, hashes, codes, enc, ctor, replay, l1>>

\* the process ends (after a panic, or at any other point between two
\* transactions) and is started again on the same database
Restart ==
  /\ sync.pc \in {"dead", "save"}
  /\ sync' = [NewSynchronizer(kv) EXCEPT !.n = sync.n]
  /\ last' = [NoCall EXCEPT !.op = "restart", !.block = sync.blockIterator,
                            !.kv = kv, !.hashes = hashes]
  /\ UNCHANGED <<trieVars, kv, hashes, codes, enc, ctor, replay, l1>>

NextState == UpdateState \/ FetchNothing \/ SaveLatest \/ Restart

SpecState == Init /\ [][NextState]_vars

----------------------------------------------------------------------------
\* L1 sync of the Synchronizer: the ticker goroutine of l1Sync,
\* processMemoryPages, parsePages, compareValues, updateStateBasedOnPages

\* UpdateState with FastSync off: l1Sync runs instead of apiSync
StartL1 ==
  /\ sync.pc = "fetch" /\ last.op \in {"", "restart"}
  /\ sync' = [sync EXCEPT !.pc = "ticker"]
  /\ last' = [NoCall EXCEPT !.op = "l1Sync", !.kv = kv, !.hashes = hashes]
  /\ UNCHANGED <<trieVars, kv, hashes, codes, enc, ctor, replay, l1>>

\* updateStateBasedOnPages: the two loops of updateState, with no Begin
\* before them and no Commit or Rollback after them
updateStateBasedOnPages(db, s, hs, update) ==
  CHOOSE r \in {ApplyStorageDiffs(w1, update.StorageDiffs, 1) :
                w1 \in {DeployContracts([Running(db, s, hs) EXCEPT !.txn = "none"],
                                        update.DeployedContracts, 1)}} :
    TRUE

\* compareValues after updateStateBasedOnPages: the update of the block is
\* fetched from the feeder gateway and its root compared
compareValues(w, fetched, apiRoot) ==
  IF w.stop # "" THEN w.stop
  ELSE IF ~fetched THEN "panic: Error loading update from feeder gateway"
  ELSE IF apiRoot # RootHash(w.stateTrie) THEN "panic: states don't match"
  ELSE "ok"

\* one tick of the goroutine with a verified fact at the head of s.facts:
\* under s.lock, the pages are retrieved (or not, and processMemoryPages
\* returns), parsed into a StateDiff and applied; what the tries wrote stays
\* written when compareValues panics
ProcessMemoryPages ==
  /\ sync.pc = "ticker" /\ sync.n < MaxUpdates
  /\ \E update \in StateDiffs, retrieved \in BOOLEAN, fetched \in BOOLEAN :
       \E w \in {updateStateBasedOnPages(kv, sync, hashes, update)} :
         \E apiRoot \in {RootHash(w.stateTrie), MissingHash} :
           \E outcome \in {compareValues(w, fetched, apiRoot)} :
             IF ~retrieved THEN
               /\ sync' = [sync EXCEPT !.n = sync.n + 1]
               /\ last' = [NoCall EXCEPT !.op = "processMemoryPages",
                                         !.outcome = "Couldn't retrieve transactions",
                                         !.block = sync.n, !.kv = kv, !.hashes = hashes]
               /\ UNCHANGED <<kv, hashes, codes>>
             ELSE
               /\ kv' = w.db
               /\ hashes' = w.hashes
               /\ codes' = IF outcome = "ok"
                           THEN StoreCodes(codes, update.DeployedContracts, TRUE)
                           ELSE codes
               /\ sync' = [sync EXCEPT !.stateTrie = w.stateTrie,
                                       !.storageTries = w.storageTries,
                                       !.pc = IF outcome = "ok" THEN "ticker" ELSE "dead",
                                       !.n = sync.n + 1]
               /\ last' = [op |-> "processMemoryPages", outcome |-> outcome,
                           block |-> sync.n, calls |-> 0,
                           deployed |-> update.DeployedContracts,
                           storage |-> update.StorageDiffs, log |-> w.log,
                           muts |-> w.muts, commitment |-> RootHash(w.stateTrie),
                           kv |-> kv, hashes |-> hashes]
  /\ UNCHANGED <<trieVars, enc, ctor, replay, l1>>

NextL1 == StartL1 \/ ProcessMemoryPages \/ UpdateState \/ SaveLatest

SpecL1 == Init /\ [][NextL1]_vars

----------------------------------------------------------------------------
\* The two goroutines of l1Sync: the event loop, which puts the facts of the
\* state transitions into s.facts, and the ticker, which takes them out

\* the hashes of the facts, and the number of fact events of one run
FactHashes == {1, 2}

MaxFacts == 3

\* an event of the GpsStatementVerifier contract: s.GpsVerifier.Add
ReceiveGps ==
  /\ l1.epc = "recv"
  /\ \E f \in FactHashes \ l1.gps : l1' = [l1 EXCEPT !.gps = l1.gps \cup {f}]
  /\ UNCHANGED <<trieVars, kv, sync, hashes, codes, last, enc, ctor, replay>>

\* an event of the Starknet contract with a stateTransitionFact
ReceiveFact ==
  /\ l1.epc = "recv" /\ Len(l1.received) < MaxFacts
  /\ \E f \in FactHashes :
       l1' = [l1 EXCEPT !.epc = "lock", !.pending = f,
                        !.received = Append(l1.received, f)]
  /\ UNCHANGED <<trieVars, kv, sync, hashes, codes, last, enc, ctor, replay>>

\* s.lock.Lock() of the event loop
EventsLock ==
  /\ l1.epc = "lock" /\ l1.lock = "free"
  /\ l1' = [l1 EXCEPT !.lock = "events", !.epc = "append"]
  /\ UNCHANGED <<trieVars, kv, sync, hashes, codes, last, enc, ctor, replay>>

\* s.facts = append(s.facts, fact)
EventsAppend ==
  /\ l1.epc = "append"
  /\ l1' = [l1 EXCEPT !.facts = Append(l1.facts, l1.pending), !.epc = "unlock"]
  /\ UNCHANGED <<trieVars, kv, sync, hashes, codes, last, enc, ctor, replay>>

\* s.lock.Unlock() of the event loop
EventsUnlock ==
  /\ l1.epc = "unlock"
  /\ l1' = [l1 EXCEPT !.lock = "free", !.epc = "recv", !.pending = NoFact]
  /\ UNCHANGED <<trieVars, kv, sync, hashes, codes, last, enc, ctor, replay>>

\* what a read of s.facts made without the lock can find while the event
\* loop, holding the lock, assigns the slice: the slice before the
\* assignment, the slice after it, or a slice header of which only a part
\* is written (Torn)
Torn == <<0 - 1>>

FactsSeen ==
  IF l1.epc = "append" THEN {l1.facts, Append(l1.facts, l1.pending), Torn} ELSE {l1.facts}

\* an access of the ticker to s.facts outside s.lock
Unlocked(what) == l1.unlocked \cup {<<"ticker", what>>}

\* a tick: len(s.facts) == 0 is read without the lock
TickLen ==
  /\ l1.tpc = "tick"
  /\ \E seen \in FactsSeen :
       l1' = [l1 EXCEPT !.unlocked = Unlocked("len(s.facts)"),
                        !.tpc = IF seen = Torn \/ Len(seen) > 0 THEN "exist" ELSE "tick"]
  /\ UNCHANGED <<trieVars, kv, sync, hashes, codes, last, enc, ctor, replay>>

\* s.GpsVerifier.Exist(s.facts[0]), read without the lock; the index of a
\* slice that is empty or torn panics
TickExist ==
  /\ l1.tpc = "exist"
  /\ \E seen \in FactsSeen :
       l1' = [l1 EXCEPT !.unlocked = Unlocked("s.facts[0]"),
                        !.tpc = IF seen = Torn \/ Len(seen) = 0 THEN "dead"
                                ELSE IF seen[1] \in l1.gps THEN "lock" ELSE "tick"]
  /\ UNCHANGED <<trieVars, kv, sync, hashes, codes, last, enc, ctor, replay>>

\* s.lock.Lock() of the ticker
TickLock ==
  /\ l1.tpc = "lock" /\ l1.lock = "free"
  /\ l1' = [l1 EXCEPT !.lock = "ticker", !.tpc = "process"]
  /\ UNCHANGED <<trieVars, kv, sync, hashes, codes, last, enc, ctor, replay>>

\* how processMemoryPages ends: the diff of the pages is applied and
\* compared, or it returns before parsePages (the ABI is not loaded, a
\* transaction is not retrieved, the input is not unpacked), or compareValues
\* panics after the diff was applied
PagesOutcomes == {"applied", "returned early", "panic"}

\* mutant of Dequeue: the last fact is taken off the queue
DequeueLast(facts) == SubSeq(facts, 1, Len(facts) - 1)

\* s.facts = s.facts[1:]
Dequeue(facts) == Tail(facts)

\* under the lock: processMemoryPages(s.facts[0], s.blockNumber), then
\* s.blockNumber += 1 and s.facts = s.facts[1:]
TickProcess ==
  /\ l1.tpc = "process"
  /\ \E outcome \in PagesOutcomes :
       l1' = IF outcome = "panic" THEN [l1 EXCEPT !.tpc = "dead"]
             ELSE [l1 EXCEPT !.blockNumber = l1.blockNumber + 1,
                             !.facts = Dequeue(l1.facts),
                             !.consumed = Append(l1.consumed,
                                                 [fact |-> l1.facts[1],
                                                  verified |-> l1.facts[1] \in l1.gps,
                                                  applied |-> outcome = "applied"]),
                             !.tpc = "unlock"]
  /\ UNCHANGED <<trieVars, kv, sync, hashes, codes, last, enc, ctor, replay>>

\* s.lock.Unlock() of the ticker
TickUnlock ==
  /\ l1.tpc = "unlock"
  /\ l1' = [l1 EXCEPT !.lock = "free", !.tpc = "tick"]
  /\ UNCHANGED <<trieVars, kv, sync, hashes, codes, last, enc, ctor, replay>>

NextFacts ==
  \/ ReceiveGps \/ ReceiveFact \/ EventsLock \/ EventsAppend \/ EventsUnlock
  \/ TickLen \/ TickExist \/ TickLock \/ TickProcess \/ TickUnlock

SpecFacts == Init /\ [][NextFacts]_vars

----------------------------------------------------------------------------
\* updateState of pkg/starknet/utils.go: one state update inside a database
\* transaction; the state trie and the storage tries all lie under the prefix
\* "state"

\* the mark of the text of a digest
TextMark == 0 - 3

\* []byte(stateCommitment) for the root hash h: the characters of its
\* hexadecimal digits; the text of a digest is the digest under TextMark
RootText(h) == IF Len(h) = 1 THEN StateRootValue(h[1]) ELSE <<TextMark>> \o h

\* types.BytesToFelt of the value found under StateRootKey: the number whose
\* bytes are the characters of the text; for the text of a digest it is a
\* felt that is the hash of no node
TextFelt(value) ==
  IF value = NilBytes THEN Felt0
  ELSE IF value[1] = TextMark THEN value
  ELSE FeltOf(StoredRootFelt(value))

\* trie.New, which newTrie calls with a root hash that is never nil: it is
\* NewTrie, which looks up every root hash it is given, or (build "New") the
\* constructor that takes Felt0 for the root of the empty trie
trieNew(sH, rootHash, build) ==
  IF build = "New" /\ rootHash = Felt0 THEN [err |-> "ok", root |-> Nil]
  ELSE NewTrie(sH, rootHash)

newTrie(sH, rootHash, build) ==
  CHOOSE r \in {[stop |-> IF t.err # "ok" THEN "panic: Couldn't load the t" ELSE "",
                 root |-> t.root] : t \in {trieNew(sH, rootHash, build)}} : TRUE

\* an error that updateState returns to its caller
Returned(err) ==
  IF err = "not found" THEN "error: not found" ELSE "error: invalid value"

EmptyNodePanic == "panic: reached an empty node while traversing the trie"

\* the state of a running updateState: the database as the transaction sees
\* it, the contract hashes of the hash service, the state trie and the
\* storage trie at hand, and why it stopped
RunningTxn(db, hs, build) ==
  [db |-> db, hashes |-> hs, build |-> build, stateTrie |-> Nil, storageTrie |-> Nil,
   stop |-> "", log |-> <<>>]

\* the start of updateState: the state trie at the root found under
\* StateRootKey
LoadStateTrie(w) ==
  CHOOSE r \in {[w EXCEPT !.stateTrie = t.root, !.stop = t.stop] :
                t \in {newTrie(w.db.state.sH, TextFelt(w.db.stateRoot), w.build)}} : TRUE

\* stateTrie.Get(&address), txn.Get(trieLeafForContract.Bytes()) and newTrie
\* at the storage root found: Get gives nil for an address that the state
\* trie does not hold, and Bytes is called on it
StorageTrieOf(w, address, leaf) ==
  IF leaf.err = "panic" THEN [stop |-> EmptyNodePanic, root |-> Nil]
  ELSE IF leaf.err # "ok" THEN [stop |-> Returned(leaf.err), root |-> Nil]
  ELSE IF ~leaf.found THEN [stop |-> "panic: nil pointer dereference", root |-> Nil]
  ELSE IF leaf.val \notin DOMAIN w.db.leaves THEN [stop |-> Returned("not found"), root |-> Nil]
  ELSE newTrie(w.db.state.sH, w.db.leaves[leaf.val], w.build)

OpenStorageTrie(w, address) ==
  CHOOSE r \in {[w EXCEPT !.storageTrie = t.root, !.stop = t.stop] :
                t \in {StorageTrieOf(w, address, leaf) :
                       leaf \in {Get(w.stateTrie, w.db.state.sH, w.db.state.sP, address)}}} :
    TRUE

\* txn.Put(contractStateValue.Bytes(), storageTrie.RootHash().Bytes()) and
\* stateTrie.Put(&address, &contractStateValue); the deploy loop does not
\* look at the error of the Put (checked = FALSE)
PutLeaf(w, address, contractHash, checked) ==
  IF w.stop # "" THEN w
  ELSE CHOOSE r \in
         {IF p.err = "panic" THEN [w EXCEPT !.stop = EmptyNodePanic]
          ELSE IF p.err # "ok" /\ checked THEN
            [w EXCEPT !.stop = "panic: Couldn't get the contract Hash"]
          ELSE [w EXCEPT !.stateTrie = p.root,
                         !.db.state = [sH |-> p.sH, sP |-> p.sP],
                         !.db.leaves = (contractState(FeltOf(contractHash),
                                                      RootHash(w.storageTrie))
                                          :> RootHash(w.storageTrie)) @@ w.db.leaves] :
          p \in {Put(w.stateTrie, w.db.state.sH, w.db.state.sP, address,
                     contractState(FeltOf(contractHash), RootHash(w.storageTrie)))}} : TRUE

\* the body of the loop over update.DeployedContracts
DeployContractTxn(w, e) ==
  IF w.stop # "" THEN w
  ELSE IF ~e.hashOk THEN
    [w EXCEPT !.stop = "panic: Couldn't get contract hash",
              !.log = Append(w.log, <<"deploy", e.address>>)]
  ELSE CHOOSE r \in
         {PutLeaf(w1, e.address, e.contractHash, FALSE) :
          w1 \in {OpenStorageTrie(
                    [w EXCEPT !.hashes = storeContractHash(w.hashes, e.address, e.contractHash),
                              !.log = Append(w.log, <<"deploy", e.address>>)],
                    e.address)}} : TRUE

RECURSIVE DeployContractsTxn(_, _, _)
DeployContractsTxn(w, list, i) ==
  IF i > Len(list) THEN w
  ELSE CHOOSE r \in {DeployContractsTxn(w1, list, i + 1) :
                       w1 \in {DeployContractTxn(w, list[i])}} : TRUE

\* the body of the loop over the storage slots of one address
PutSlotTxn(w, slot) ==
  IF w.stop # "" THEN w
  ELSE IF ~slot.valueOk THEN [w EXCEPT !.stop = "panic: Couldn't get the contract Hash"]
  ELSE CHOOSE r \in
         {IF p.err = "panic" THEN [w EXCEPT !.stop = EmptyNodePanic]
          ELSE IF p.err # "ok" THEN [w EXCEPT !.stop = "panic: Couldn't get the contract Hash"]
          ELSE [w EXCEPT !.storageTrie = p.root, !.db.state = [sH |-> p.sH, sP |-> p.sP]] :
          p \in {Put(w.storageTrie, w.db.state.sH, w.db.state.sP, slot.key,
                     FeltOf(slot.value))}} : TRUE

RECURSIVE PutSlotsTxn(_, _, _)
PutSlotsTxn(w, slots, i) ==
  IF i > Len(slots) THEN w
  ELSE CHOOSE r \in {PutSlotsTxn(w1, slots, i + 1) : w1 \in {PutSlotTxn(w, slots[i])}} : TRUE

\* the body of the loop over update.StorageDiffs
StorageDiffTxn(w, e) ==
  IF w.stop # "" THEN w
  ELSE CHOOSE r \in
         {PutLeaf(w2, e.address, loadContractHash(w2.hashes, e.address), TRUE) :
          w2 \in {PutSlotsTxn(w1, e.slots, 1) :
                  w1 \in {OpenStorageTrie(
                            [w EXCEPT !.log = Append(w.log, <<"storage", e.address>>)],
                            e.address)}}} : TRUE

RECURSIVE ApplyStorageDiffsTxn(_, _, _)
ApplyStorageDiffsTxn(w, list, i) ==
  IF i > Len(list) THEN w
  ELSE CHOOSE r \in {ApplyStorageDiffsTxn(w1, list, i + 1) :
                       w1 \in {StorageDiffTxn(w, list[i])}} : TRUE

\* updateState up to the comparison of the roots
ApplyDiffTxn(db, hs, build, update) ==
  CHOOSE r \in {ApplyStorageDiffsTxn(w2, update.StorageDiffs, 1) :
                w2 \in {DeployContractsTxn(w1, update.DeployedContracts, 1) :
                        w1 \in {LoadStateTrie(RunningTxn(db, hs, build))}}} : TRUE

\* the end of updateState: the comparison with the state root given, and the
\* root put under StateRootKey
PersistStateRoot(w, stateRoot) ==
  IF w.stop # "" THEN w
  ELSE IF stateRoot # NoStateRoot /\ RootHash(w.stateTrie) # stateRoot THEN
    [w EXCEPT !.stop = "panic: stateRoot not equal to the one provided"]
  ELSE [w EXCEPT !.db.stateRoot = RootText(RootHash(w.stateTrie))]

\* the two constructors that trie.New can be
Builds == {"NewTrie", "New"}

InitTxn ==
  /\ root = Nil
  /\ storeH = EmptyStore
  /\ storeP = EmptyStore
  /\ ref = [k \in Keys |-> Absent]
  /\ hist = <<>>
  /\ run = Idle(0)
  /\ kv = EmptyKV
  /\ sync = NewSynchronizer(EmptyKV)
  /\ hashes = [a \in Addrs |-> NoContractHash]
  /\ codes = {}
  /\ last = NoCall
  /\ enc = NoRootTest
  /\ ctor \in Builds
  /\ replay = NoReplay
  /\ l1 = NoL1

\* one call of updateState with the next sequence number; the caller commits
\* the transaction when the call returns no error, and the transaction is
\* dropped when the call returns an error or panics
UpdateStateTxn ==
  /\ last.calls < MaxUpdates
  /\ \E update \in StateDiffs :
       \E applied \in {ApplyDiffTxn(kv, hashes, ctor, update)} :
         \E stateRoot \in GivenRoots(RootHash(applied.stateTrie)) :
           \E w \in {PersistStateRoot(applied, stateRoot)} :
             /\ kv' = IF w.stop # "" THEN kv ELSE w.db
             /\ hashes' = w.hashes
             /\ last' = [op |-> "updateStateTxn",
                         outcome |-> IF w.stop # "" THEN w.stop ELSE "ok",
                         block |-> last.calls, calls |-> last.calls + 1,
                         deployed |-> update.DeployedContracts,
                         storage |-> update.StorageDiffs, log |-> w.log,
                         commitment |-> RootHash(w.stateTrie),
                         kv |-> kv, hashes |-> hashes]
             /\ UNCHANGED <<trieVars, sync, codes, enc, ctor, replay, l1>>

NextTxn == UpdateStateTxn

SpecTxn == InitTxn /\ [][NextTxn]_vars

----------------------------------------------------------------------------
\* The state root written by one updateState and read by the next

InitRoot ==
  /\ root = Nil
  /\ storeH = EmptyStore
  /\ storeP = EmptyStore
  /\ ref = [k \in Keys |-> Absent]
  /\ hist = <<>>
  /\ run = Idle(0)
  /\ kv = EmptyKV
  /\ sync = NewSynchronizer(EmptyKV)
  /\ hashes = [a \in Addrs |-> NoContractHash]
  /\ codes = {}
  /\ last = NoCall
  /\ enc \in {[NoRootTest EXCEPT !.root = r] : r \in 0 .. MaxRoot}
  /\ ctor = "NewTrie"
  /\ replay = NoReplay
  /\ l1 = NoL1

\* the end of updateState: txn.Put(StateRootKey, []byte(stateCommitment))
PersistRoot ==
  /\ enc.pc = "idle"
  /\ enc' = [enc EXCEPT !.pc = "stored", !.stored = StateRootValue(enc.root)]
  /\ UNCHANGED <<trieVars, kv, sync, hashes, codes, last, ctor, replay, l1>>

\* the start of the next updateState: txn.Get(StateRootKey), BytesToFelt
LoadRoot ==
  /\ enc.pc = "stored"
  /\ enc' = [enc EXCEPT !.pc = "loaded", !.loaded = StoredRootFelt(enc.stored)]
  /\ UNCHANGED <<trieVars, kv, sync, hashes, codes, last, ctor, replay, l1>>

NextRoot == PersistRoot \/ LoadRoot

SpecRoot == InitRoot /\ [][NextRoot]_vars

----------------------------------------------------------------------------
\* The JSON text of a node: MarshalJSON gives the path and the bottom as the
\* hexadecimal text of Felt.Hex, UnmarshalJSON reads them with HexToFelt

\* the bytes of Felt.Hex of a felt; the text of a digest is the digest under
\* TextMark
HexText(f) == IF Len(f) = 1 THEN StringBytes(Hex(f[1])) ELSE <<TextMark>> \o f

\* mutant of HexValue: the letters are read as the digits are
HexValueDigitsOnly(b) == b - 48

\* the value of the byte of a hexadecimal digit
HexValue(b) == IF b >= 97 THEN b - 87 ELSE b - 48

RECURSIVE ParseHex(_)
ParseHex(t) ==
  IF Len(t) = 0 THEN 0
  ELSE 16 * ParseHex(SubSeq(t, 1, Len(t) - 1)) + HexValue(t[Len(t)])

\* the text without the prefix "0x"
Strip0x(t) ==
  IF Len(t) >= 2 /\ t[1] = 48 /\ t[2] = 120 THEN SubSeq(t, 3, Len(t)) ELSE t

\* types.HexToFelt
HexToFelt(t) ==
  IF Len(t) > 0 /\ t[1] = TextMark THEN Tail(t) ELSE FeltOf(ParseHex(Strip0x(t)))

\* json.Marshal of the struct that MarshalJSON fills
JSONText(j) ==
  [length |-> j.length, path |-> HexText(FeltOf(j.path)), bottom |-> HexText(j.bottom)]

\* json.Unmarshal into the struct, and the two HexToFelt of UnmarshalJSON
JSONFields(t) ==
  [length |-> t.length, path |-> HexToFelt(t.path)[1], bottom |-> HexToFelt(t.bottom)]

\* the paths of every length up to the height
Paths == UNION {[1 .. n -> {0, 1}] : n \in 0 .. Height}

\* bottoms of one and of two hexadecimal digits, and a digest
MaxBottom == 26

Bottoms == {FeltOf(v) : v \in 0 .. MaxBottom} \cup {Digest(FeltOf(1), FeltOf(MaxBottom))}

\* the node under test: not yet marshalled
NodeTest(n) == [pc |-> "node", node |-> n, text |-> JSONText(MarshalJSON(Nil)), back |-> Nil]

InitJSON ==
  /\ root = Nil
  /\ storeH = EmptyStore
  /\ storeP = EmptyStore
  /\ ref = [k \in Keys |-> Absent]
  /\ hist = <<>>
  /\ run = Idle(0)
  /\ kv = EmptyKV
  /\ sync = NewSynchronizer(EmptyKV)
  /\ hashes = [a \in Addrs |-> NoContractHash]
  /\ codes = {}
  /\ last = NoCall
  /\ enc \in {NodeTest(Node(p, b)) : p \in Paths, b \in Bottoms}
  /\ ctor = "NewTrie"
  /\ replay = NoReplay
  /\ l1 = NoL1

\* storeByH: json.Marshal(node)
MarshalNode ==
  /\ enc.pc = "node"
  /\ enc' = [enc EXCEPT !.pc = "text", !.text = JSONText(MarshalJSON(enc.node))]
  /\ UNCHANGED <<trieVars, kv, sync, hashes, codes, last, ctor, replay, l1>>

\* retrieveByH: json.Unmarshal(value, n)
UnmarshalNode ==
  /\ enc.pc = "text"
  /\ enc' = [enc EXCEPT !.pc = "back", !.back = UnmarshalJSON(JSONFields(enc.text))]
  /\ UNCHANGED <<trieVars, kv, sync, hashes, codes, last, ctor, replay, l1>>

NextJSON == MarshalNode \/ UnmarshalNode

SpecJSON == InitJSON /\ [][NextJSON]_vars

----------------------------------------------------------------------------
\* remove0x and the text of the state root put under StateRootKey

\* the strings given to remove0x: the two characters it removes and one it
\* keeps, up to MaxStr characters
MaxStr == 4

StrChars == {"0", "x", "a"}

Strings == UNION {[1 .. n -> StrChars] : n \in 0 .. MaxStr}

\* the root to persist and the string to strip, before the two calls
TextTest(r, str) ==
  [pc |-> "idle", root |-> r, stored |-> NilBytes, loaded |-> 0,
   str |-> str, called |-> FALSE, out |-> <<>>]

InitText ==
  /\ root = Nil
  /\ storeH = EmptyStore
  /\ storeP = EmptyStore
  /\ ref = [k \in Keys |-> Absent]
  /\ hist = <<>>
  /\ run = Idle(0)
  /\ kv = EmptyKV
  /\ sync = NewSynchronizer(EmptyKV)
  /\ hashes = [a \in Addrs |-> NoContractHash]
  /\ codes = {}
  /\ last = NoCall
  /\ enc \in {TextTest(r, str) : r \in 0 .. MaxRoot, str \in Strings}
  /\ ctor = "NewTrie"
  /\ replay = NoReplay
  /\ l1 = NoL1

\* remove0x(s)
Remove0x ==
  /\ ~enc.called
  /\ enc' = [enc EXCEPT !.called = TRUE, !.out = remove0x(enc.str)]
  /\ UNCHANGED <<trieVars, kv, sync, hashes, codes, last, ctor, replay, l1>>

NextText == PersistRoot \/ Remove0x

SpecText == InitText /\ [][NextText]_vars

----------------------------------------------------------------------------
\* Replay: two Synchronizers, each on a database of its own, are given the
\* same state updates; the range over the map update.StorageDiffs visits the
\* addresses in an order of its own in each of the two

\* the deployed contracts and the storage diffs of a replayed update; the
\* empty list of slots stands for an address that the map does not have
ReplayDeployed ==
  {<<>>} \cup {<<[address |-> a, contractHash |-> h, hashOk |-> TRUE]>> :
                 a \in Addrs, h \in {CHOOSE c \in ContractHashes : TRUE}}

ReplaySlots ==
  {<<>>} \cup {<<[key |-> k, value |-> v, valueOk |-> TRUE]>> : k \in Slots, v \in SlotVals}

StorageMaps == [Addrs -> ReplaySlots]

\* the orders in which a range over the map m can visit its addresses
Orders(m) ==
  LET present == {a \in Addrs : m[a] # <<>>}
  IN  {o \in UNION {[1 .. n -> present] : n \in {Cardinality(present)}} :
         \A i, j \in DOMAIN o : o[i] = o[j] => i = j}

\* the storage diffs of the map m as the range in the order o visits them
RECURSIVE Visited(_, _, _)
Visited(m, o, n) ==
  IF n = 0 THEN <<>>
  ELSE Append(Visited(m, o, n - 1), [address |-> o[n], slots |-> m[o[n]]])

\* updateState of one of the two Synchronizers
ReplayStep(p, deployed, m, o) ==
  CHOOSE r \in
    {IF w.stop # "" THEN [p EXCEPT !.sync.pc = "dead", !.hashes = w.hashes,
                                   !.outcome = w.stop, !.visited = Len(o),
                                   !.reversed = Len(o) > 1 /\ o[1] > o[2]]
     ELSE [kv |-> w.db,
           sync |-> [p.sync EXCEPT !.stateTrie = w.stateTrie,
                                   !.storageTries = w.storageTries],
           hashes |-> w.hashes, outcome |-> "ok",
           commitment |-> RootHash(w.stateTrie), visited |-> Len(o),
           reversed |-> Len(o) > 1 /\ o[1] > o[2]] :
     w \in {ApplyDiff(p.kv, p.sync, p.hashes,
                      [DeployedContracts |-> deployed,
                       StorageDiffs |-> Visited(m, o, Len(o))])}} : TRUE

ReplayDiff ==
  /\ replay.n < MaxUpdates
  /\ \A p \in {1, 2} : replay.runs[p].sync.pc # "dead"
  /\ \E deployed \in ReplayDeployed, m \in StorageMaps :
       \E o1 \in Orders(m), o2 \in Orders(m) :
         replay' = [n |-> replay.n + 1,
                    runs |-> [p \in {1, 2} |->
                                ReplayStep(replay.runs[p], deployed, m,
                                           IF p = 1 THEN o1 ELSE o2)]]
  /\ UNCHANGED <<trieVars, kv, sync, hashes, codes, last, enc, ctor, l1>>

NextReplay == ReplayDiff

SpecReplay == Init /\ [][NextReplay]_vars

----------------------------------------------------------------------------
\* Put and Delete on a database that may fail a write

\* KeyValueStore.Put: the error of the database is dropped, and storeByH and
\* storeByP return nil whatever happened; the store after a call whose
\* write under the key lost was failed by the database
WriteFailed(after, lost) == [h \in DOMAIN after \ {lost} |-> after[h]]

\* the keys that a call wrote for the first time
Written(before, after) == DOMAIN after \ DOMAIN before

FailedWrite == "store write failed"

\* the keys of the calls made on the failing database: two that part at the
\* last bit and one that parts from them at the first
FaultKeys == {0, 1, 2 ^ Height - 1}

\* no write of the call fails
NoWrite == <<0 - 9>>

\* the writes of which the database may fail one, or none
MayLose(before, after) == {NoWrite} \cup Written(before, after)

\* the store after the call
Kept(after, lost) == IF lost = NoWrite THEN after ELSE WriteFailed(after, lost)

\* the writes and the reads of one history
MaxReads == 2

Calls(ops) == Len(SelectSeq(hist, LAMBDA e : e.op \in ops))

\* an entry of the history with the trie and the store the call started from
CallEntry(op, key, val, arg, err, r) ==
  [op |-> op, key |-> key, val |-> val, arg |-> arg, err |-> err, rh |-> RootHash(r),
   had |-> ref[key] # Absent, root |-> root, sH |-> storeH, sP |-> storeP]

PutOnDb ==
  /\ Calls({"put", "delete"}) < MaxOps
  /\ \E k \in FaultKeys :
       \E res \in {Put(root, storeH, storeP, k, FeltOf(MaxVal))} :
         \E lostH \in MayLose(storeH, res.sH), lostP \in MayLose(storeP, res.sP) :
           /\ lostH = NoWrite \/ lostP = NoWrite
           /\ storeH' = Kept(res.sH, lostH)
           /\ storeP' = Kept(res.sP, lostP)
           /\ root' = res.root
           /\ ref' = IF res.err = "ok" THEN [ref EXCEPT ![k] = MaxVal] ELSE ref
           /\ hist' = Append(hist, CallEntry("put", k, MaxVal,
                                             IF lostH = NoWrite /\ lostP = NoWrite THEN ""
                                             ELSE FailedWrite,
                                             res.err, res.root))
           /\ UNCHANGED <<run, procVars>>

DeleteOnDb ==
  /\ Calls({"put", "delete"}) < MaxOps
  /\ \E k \in FaultKeys :
       \E res \in {Delete(root, storeH, storeP, k)} :
         \E lostH \in MayLose(storeH, res.sH), lostP \in MayLose(storeP, res.sP) :
           /\ lostH = NoWrite \/ lostP = NoWrite
           /\ storeH' = Kept(res.sH, lostH)
           /\ storeP' = Kept(res.sP, lostP)
           /\ root' = res.root
           /\ ref' = IF res.err = "ok" THEN [ref EXCEPT ![k] = Absent] ELSE ref
           /\ hist' = Append(hist, CallEntry("delete", k, Absent,
                                             IF lostH = NoWrite /\ lostP = NoWrite THEN ""
                                             ELSE FailedWrite,
                                             res.err, res.root))
           /\ UNCHANGED <<run, procVars>>

GetOnDb ==
  /\ Calls({"get"}) < MaxReads
  /\ \E k \in FaultKeys :
       \E res \in {Get(root, storeH, storeP, k)} :
         /\ hist' = Append(hist, CallEntry("get", k,
                                           IF res.found THEN res.val[1] ELSE Absent,
                                           "", res.err, root))
         /\ UNCHANGED <<root, storeH, storeP, ref, run, procVars>>

\* the database holds a value of another length under the 0x00 key of a
\* preimage: retrieveByP finds len(value) != 2 * FeltLength
CorruptPreimage ==
  /\ \A p \in DOMAIN storeP : Len(storeP[p]) = 2
  /\ \E p \in DOMAIN storeP :
       storeP' = [storeP EXCEPT ![p] = <<storeP[p][1]>>]
  /\ UNCHANGED <<root, storeH, ref, hist, run, procVars>>

NextFaults == PutOnDb \/ DeleteOnDb \/ GetOnDb \/ CorruptPreimage

SpecFaults == Init /\ [][NextFaults]_vars

----------------------------------------------------------------------------
\* The descent loops of Get, Put and Delete, one iteration at a time

\* the condition of the loop: Get walks while walked < t.height, Put and
\* Delete also stop at curr == nil
LoopGoesOn(op, walked, curr) ==
  walked < Height /\ (op = "get" \/ ~curr.isNil)

\* the loop was left by return, break or panic
LeftLoop(walked, curr) == [left |-> TRUE, walked |-> walked, curr |-> curr]

\* mutant of LoopBody: Put goes on at an edge that shares nothing with the key
LoopBodyNoBreak(op, sH, sP, path, walked, curr) ==
  IF Len(curr.path) = 0 THEN
    IF curr.bottom = Felt0 THEN LeftLoop(walked, curr)
    ELSE LET pr == retrieveByP(sP, curr.bottom)
             nd == retrieveByH(sH, IF PathGet(path, walked) THEN pr.right ELSE pr.left)
         IN  IF pr.err # "ok" \/ nd.err # "ok" THEN LeftLoop(walked, curr)
             ELSE [left |-> FALSE, walked |-> walked + 1, curr |-> nd.node]
  ELSE IF op = "get" THEN
    IF EdgeMatches(curr, path, walked)
    THEN [left |-> FALSE, walked |-> walked + Len(curr.path),
          curr |-> Node(EmptyPath, curr.bottom)]
    ELSE LeftLoop(walked, curr)
  ELSE LET lcp == longestCommonPrefix(curr.path, Walked(path, walked))
       IN  IF lcp = 0 /\ op = "delete"
           THEN [left |-> FALSE, walked |-> walked + lcp, curr |-> Nil]
           ELSE [left |-> FALSE, walked |-> walked + lcp,
                 curr |-> Node(Walked(curr.path, lcp), curr.bottom)]

\* the body of the loop, entered with walked bits walked and the node curr
LoopBody(op, sH, sP, path, walked, curr) ==
  IF Len(curr.path) = 0 THEN
    IF curr.bottom = Felt0 THEN LeftLoop(walked, curr)
    ELSE LET pr == retrieveByP(sP, curr.bottom)
             nd == retrieveByH(sH, IF PathGet(path, walked) THEN pr.right ELSE pr.left)
         IN  IF pr.err # "ok" \/ nd.err # "ok" THEN LeftLoop(walked, curr)
             ELSE [left |-> FALSE, walked |-> walked + 1, curr |-> nd.node]
  ELSE IF op = "get" THEN
    IF EdgeMatches(curr, path, walked)
    THEN [left |-> FALSE, walked |-> walked + Len(curr.path),
          curr |-> Node(EmptyPath, curr.bottom)]
    ELSE LeftLoop(walked, curr)
  ELSE LET lcp == longestCommonPrefix(curr.path, Walked(path, walked))
       IN  IF lcp = 0 THEN
             IF op = "put" THEN LeftLoop(walked, curr)
             ELSE [left |-> FALSE, walked |-> walked + lcp, curr |-> Nil]
           ELSE [left |-> FALSE, walked |-> walked + lcp,
                 curr |-> Node(Walked(curr.path, lcp), curr.bottom)]

\* the values put while the trie of the descents is built: zero, which Put
\* stores as a leaf, and one other
WalkVals == {0, MaxVal}

\* Put on the trie that the descents walk
GrowTrie ==
  /\ run.pc = "idle" /\ Len(hist) < MaxOps
  /\ \E k \in FaultKeys, v \in WalkVals :
       \E res \in {Put(root, storeH, storeP, k, FeltOf(v))} :
         /\ root' = res.root /\ storeH' = res.sH /\ storeP' = res.sP
         /\ ref' = IF res.err = "ok" THEN [ref EXCEPT ![k] = v] ELSE ref
         /\ hist' = Append(hist, Entry("put", k, v, "", res.err, res.root))
  /\ UNCHANGED <<run, procVars>>

\* a call of Get, Put or Delete up to the first test of the condition of its
\* loop; Get returns before the loop on a trie without root
EnterLoop ==
  /\ run.pc = "idle" /\ run.n < MaxRuns
  /\ \E op \in {"get", "put", "delete"}, k \in Keys :
       run' = [pc |-> IF (op = "get" /\ root.isNil) \/ ~LoopGoesOn(op, 0, root)
                      THEN "idle" ELSE "loop",
               op |-> op, path |-> NewPath(Height, k), walked |-> 0, curr |-> root,
               iters |-> 0, n |-> run.n + 1]
  /\ UNCHANGED <<root, storeH, storeP, ref, hist, procVars>>

\* one iteration: the body, then the condition
Iterate ==
  /\ run.pc = "loop"
  /\ \E b \in {LoopBody(run.op, storeH, storeP, run.path, run.walked, run.curr)} :
       run' = [run EXCEPT !.walked = b.walked, !.curr = b.curr, !.iters = run.iters + 1,
                          !.pc = IF b.left \/ ~LoopGoesOn(run.op, b.walked, b.curr)
                                 THEN "idle" ELSE "loop"]
  /\ UNCHANGED <<root, storeH, storeP, ref, hist, procVars>>

NextWalk == GrowTrie \/ EnterLoop \/ Iterate

\* the goroutine that called goes on running
SpecWalk == Init /\ [][NextWalk]_vars /\ WF_vars(Iterate)

----------------------------------------------------------------------------
\* Properties

Last == hist[Len(hist)]

\* the current trie was built from the empty one by Put and Delete alone
PutDeleteOnly == \A i \in 1 .. Len(hist) : hist[i].op \in {"put", "delete"}

NonZeroPuts == \A i \in 1 .. Len(hist) : hist[i].op = "put" => hist[i].val # 0

DistinctNonZeroPuts ==
  /\ \A i \in 1 .. Len(hist) : hist[i].op = "put" /\ hist[i].val # 0
  /\ \A i, j \in 1 .. Len(hist) : i # j => hist[i].key # hist[j].key

\* the trie obtained from the empty one by the first n puts of a sequence
RECURSIVE PutAll(_, _)
PutAll(puts, n) ==
  IF n = 0 THEN [err |-> "ok", root |-> Nil, sH |-> EmptyStore, sP |-> EmptyStore]
  ELSE LET t == PutAll(puts, n - 1)
       IN  Put(t.root, t.sH, t.sP, puts[n].key, FeltOf(puts[n].val))

\* what a key -> value map answers for key k
RefGet(k) ==
  IF ref[k] = Absent THEN [err |-> "ok", found |-> FALSE, val |-> Felt0]
  ELSE [err |-> "ok", found |-> TRUE, val |-> FeltOf(ref[k])]

\* C1: puts of distinct keys with non-zero values into an empty trie give
\* the same root hash in every insertion order
C1_OrderIndependent ==
  DistinctNonZeroPuts =>
    \A s \in Permutations(1 .. Len(hist)) :
      RootHash(PutAll([i \in 1 .. Len(hist) |-> hist[s[i]]], Len(hist)).root)
        = RootHash(root)

C1_Witness ==
  /\ DistinctNonZeroPuts
  /\ Len(hist) = MaxOps
  /\ Len(root.path) = 0
  /\ \E i \in 1 .. Len(hist) : hist[i].key = 0
  /\ \E i \in 1 .. Len(hist) : hist[i].key = 1

\* C2: after puts of non-zero values and deletes, Get agrees with the
\* key -> value map for every key
C2_GetMatchesMap ==
  (PutDeleteOnly /\ NonZeroPuts) =>
    \A k \in Keys : Get(root, storeH, storeP, k) = RefGet(k)

C2_Witness ==
  /\ PutDeleteOnly /\ NonZeroPuts
  /\ Len(hist) = MaxOps
  /\ Last.op = "delete" /\ Last.err = "ok"
  /\ \E k \in Keys : ref[k] # Absent /\ Get(root, storeH, storeP, k).found

PrevRootHash == IF Len(hist) = 1 THEN Felt0 ELSE hist[Len(hist) - 1].rh

\* the last operation was a successful Put
AfterPut == Len(hist) > 0 /\ Last.op = "put" /\ Last.err = "ok"

\* C4 as stated: Put(k, v) then Delete(k) restores the root hash, for every
\* key k and value v
C4_PutDeleteRestoresAnyKey ==
  (PutDeleteOnly /\ AfterPut) =>
    /\ Delete(root, storeH, storeP, Last.key).err = "ok"
    /\ RootHash(Delete(root, storeH, storeP, Last.key).root) = PrevRootHash

\* C4 amended: Put(k, v) then Delete(k) restores the root hash, for every
\* value v and every key k that the trie did not hold before the Put
C4_PutDeleteRestoresAbsentKey ==
  (PutDeleteOnly /\ AfterPut /\ ~Last.had) =>
    /\ Delete(root, storeH, storeP, Last.key).err = "ok"
    /\ RootHash(Delete(root, storeH, storeP, Last.key).root) = PrevRootHash

C4_Witness ==
  /\ PutDeleteOnly
  /\ Len(hist) = 3
  /\ hist[1].op = "put" /\ hist[1].err = "ok"
  /\ hist[2].op = "put" /\ hist[2].err = "ok" /\ ~hist[2].had
  /\ hist[3].op = "delete" /\ hist[3].err = "ok" /\ hist[3].key = hist[2].key
  /\ hist[3].rh = hist[1].rh
  /\ hist[2].rh # hist[1].rh

\* C5: a second Put(k, v) right after Put(k, v) leaves the root hash as the
\* first one left it
C5_PutIdempotent ==
  AfterPut =>
    /\ Put(root, storeH, storeP, Last.key, FeltOf(Last.val)).err = "ok"
    /\ RootHash(Put(root, storeH, storeP, Last.key, FeltOf(Last.val)).root)
         = RootHash(root)

C5_Witness ==
  /\ Len(hist) = 3
  /\ hist[1].op = "put" /\ hist[1].err = "ok"
  /\ hist[2].op = "put" /\ hist[2].err = "ok" /\ hist[2].key # hist[1].key
  /\ hist[3].op = "put" /\ hist[3].err = "ok"
  /\ hist[3].key = hist[2].key /\ hist[3].val = hist[2].val
  /\ hist[3].rh = hist[2].rh

\* C6: a trie constructed with no root hash or with root hash Felt0 is an
\* empty trie, on any store
C6_OpenNilOrZeroIsEmpty ==
  (Len(hist) > 0 /\ Last.op = "open" /\ Last.arg \in {"nil", "zero"}) =>
    /\ Last.err = "ok"
    /\ root = Nil
    /\ RootHash(root) = Felt0

\* root hashes a caller may ask for: of nodes that are in the store in some
\* states and not in others, and one that never is
ProbeHashes ==
  {MissingHash} \cup {FeltOf(v) : v \in 1 .. MaxVal}
    \cup {Hash(Node(NewPath(Height, k), FeltOf(v))) : k \in Keys, v \in Vals}

\* C7: constructing a trie with a non-zero root hash that has no node entry
\* in the store fails with not found and returns no trie
C7_OpenMissingRootFails ==
  \A h \in ProbeHashes :
    (h # Felt0 /\ h \notin DOMAIN storeH) =>
      NewTrie(storeH, h) = [err |-> "not found", root |-> Nil]

C7_Witness ==
  /\ Len(hist) > 1
  /\ Last.op = "open" /\ Last.arg = "missing" /\ Last.err = "not found"
  /\ DOMAIN storeH # {}
  /\ \E h \in ProbeHashes : h # MissingHash /\ h \notin DOMAIN storeH
  /\ \E h \in ProbeHashes : h \in DOMAIN storeH

\* C8: a trie opened on the same store at the root hash of a non-empty trie
\* answers every Get as that trie does
C8_ReopenSameGets ==
  (PutDeleteOnly /\ \E k \in Keys : ref[k] # Absent) =>
    /\ NewTrie(storeH, RootHash(root)).err = "ok"
    /\ \A k \in Keys :
         Get(NewTrie(storeH, RootHash(root)).root, storeH, storeP, k)
           = Get(root, storeH, storeP, k)

C8_Witness ==
  /\ PutDeleteOnly
  /\ Cardinality({k \in Keys : ref[k] # Absent}) = 2
  /\ NewTrie(storeH, RootHash(root)).err = "ok"
  /\ Len(NewTrie(storeH, RootHash(root)).root.path) > 0
  /\ \E k \in Keys : Get(NewTrie(storeH, RootHash(root)).root, storeH, storeP, k).found

\* C9: Put(k, 0) is a Delete(k): afterwards Get(k) reports k absent and, when
\* k was absent before, the root hash is as before
C9_PutZeroIsDelete ==
  (PutDeleteOnly /\ AfterPut /\ Last.val = 0) =>
    /\ ~Get(root, storeH, storeP, Last.key).found
    /\ ~Last.had => RootHash(root) = PrevRootHash

\* C10: Delete of a key the trie does not hold returns an error, writes
\* nothing to the store and leaves the root as it was
C10_DeleteAbsentFails ==
  PutDeleteOnly =>
    \A k \in Keys :
      ref[k] = Absent =>
        Delete(root, storeH, storeP, k)
          = [err |-> "trying to delete unexistent key", root |-> root,
             sH |-> storeH, sP |-> storeP]

C10_Witness ==
  /\ PutDeleteOnly
  /\ Len(hist) > 1
  /\ Last.op = "delete" /\ Last.err = "trying to delete unexistent key"
  /\ Last.key = 1 /\ ref[0] # Absent
  /\ Len(root.path) = Height
  /\ Last.rh = PrevRootHash

----------------------------------------------------------------------------
\* Structure of the stored trie

\* node n is stored under its hash in the node keyspace
NodeStored(sH, n) == retrieveByH(sH, Hash(n)) = [err |-> "ok", node |-> n]

\* node n, whose path starts at bit `depth` of the keys below it, ends at a
\* binary node (and not at a leaf value)
EndsAtBinary(n, depth) == depth + Len(n.path) < Height

\* n and every node below it can be read back: n under its hash, the two
\* child hashes of each binary node under its bottom, each child under its
\* hash
RECURSIVE SubtreeStored(_, _, _, _)
SubtreeStored(sH, sP, n, depth) ==
  /\ NodeStored(sH, n)
  /\ EndsAtBinary(n, depth) =>
       LET pr == retrieveByP(sP, n.bottom)
           l == retrieveByH(sH, pr.left)
           r == retrieveByH(sH, pr.right)
           d == depth + Len(n.path) + 1
       IN  /\ pr.err = "ok"
           /\ l.err = "ok" /\ SubtreeStored(sH, sP, l.node, d)
           /\ r.err = "ok" /\ SubtreeStored(sH, sP, r.node, d)

\* C11: after any sequence of Put and Delete, every node reachable from the
\* root is stored under its hash, and the children of every reachable binary
\* node are found through the preimage table
C11_ReachableNodesStored ==
  (PutDeleteOnly /\ ~root.isNil) => SubtreeStored(storeH, storeP, root, 0)

C11_Witness ==
  /\ PutDeleteOnly
  /\ Cardinality({k \in Keys : ref[k] # Absent}) = MaxOps
  /\ Len(root.path) = 0
  /\ retrieveByP(storeP, root.bottom).left \in DOMAIN storeH
  /\ EndsAtBinary(retrieveByH(storeH, retrieveByP(storeP, root.bottom).left).node, 1)
  /\ SubtreeStored(storeH, storeP, root, 0)

\* neither n nor any node below it has an empty path and a zero bottom
RECURSIVE NoEmptyNode(_, _, _, _)
NoEmptyNode(sH, sP, n, depth) ==
  /\ ~(Len(n.path) = 0 /\ n.bottom = Felt0)
  /\ EndsAtBinary(n, depth) =>
       LET pr == retrieveByP(sP, n.bottom)
           d == depth + Len(n.path) + 1
       IN  /\ n.bottom # Felt0
           /\ NoEmptyNode(sH, sP, retrieveByH(sH, pr.left).node, d)
           /\ NoEmptyNode(sH, sP, retrieveByH(sH, pr.right).node, d)

\* C12: after any sequence of Put and Delete, with any values, zero
\* included, no node reachable from the root has an empty path and a zero
\* bottom, and no binary node has a zero bottom
C12_NoEmptyNodeReachable ==
  (PutDeleteOnly /\ ~root.isNil) => NoEmptyNode(storeH, storeP, root, 0)

\* the edge or binary node n leads to a binary node: its path ends above the
\* leaves and its bottom is not that of the empty node
LeadsToBinary(n, depth) == EndsAtBinary(n, depth) /\ n.bottom # Felt0

\* for the binary node with bottom b the preimage table holds (left, right)
\* with Pedersen(left, right) = b, and left and right are the hashes of the
\* nodes stored under them
PreimageOf(sH, sP, b) ==
  /\ b \in DOMAIN sP
  /\ Len(sP[b]) = 2
  /\ retrieveByP(sP, b).err = "ok"
  /\ Digest(retrieveByP(sP, b).left, retrieveByP(sP, b).right) = b
  /\ retrieveByH(sH, retrieveByP(sP, b).left).err = "ok"
  /\ Hash(retrieveByH(sH, retrieveByP(sP, b).left).node) = retrieveByP(sP, b).left
  /\ retrieveByH(sH, retrieveByP(sP, b).right).err = "ok"
  /\ Hash(retrieveByH(sH, retrieveByP(sP, b).right).node) = retrieveByP(sP, b).right

RECURSIVE PedersenConsistent(_, _, _, _)
PedersenConsistent(sH, sP, n, depth) ==
  LeadsToBinary(n, depth) =>
    LET pr == retrieveByP(sP, n.bottom)
        d == depth + Len(n.path) + 1
    IN  /\ PreimageOf(sH, sP, n.bottom)
        /\ PedersenConsistent(sH, sP, retrieveByH(sH, pr.left).node, d)
        /\ PedersenConsistent(sH, sP, retrieveByH(sH, pr.right).node, d)

\* C13: for every binary node reachable from the root of a reachable trie,
\* the preimage table holds under its bottom a pair (left, right) whose
\* Pedersen digest is that bottom, left and right being the hashes of the
\* node's left and right children
C13_PreimagesConsistent ==
  ~root.isNil => PedersenConsistent(storeH, storeP, root, 0)

C13_Witness ==
  /\ Len(hist) = MaxOps
  /\ Len(root.path) = 0
  /\ PreimageOf(storeH, storeP, root.bottom)
  /\ LeadsToBinary(retrieveByH(storeH, retrieveByP(storeP, root.bottom).right).node, 1)
  /\ PedersenConsistent(storeH, storeP, root, 0)

\* keys the trie holds
Held == {k \in Keys : ref[k] # Absent}

\* the canonical trie of one key: a single edge over all Height bits
SingleEdge(k, v) == Node(NewPath(Height, k), FeltOf(v))

\* the last two operations put key k and then deleted key j, both with
\* success
PutThenDelete(k, j) ==
  /\ Len(hist) >= 2
  /\ Last.op = "delete" /\ Last.err = "ok" /\ Last.key = j
  /\ hist[Len(hist) - 1].op = "put" /\ hist[Len(hist) - 1].err = "ok"
  /\ hist[Len(hist) - 1].key = k

\* C14: whenever Put and Delete leave the trie with exactly one key k of
\* value v, the root is the single edge with the Height bits of k as path
\* and v as bottom; whenever they leave it with no key, the root is nil
C14_SingleKeyIsOneEdge ==
  PutDeleteOnly =>
    /\ \A k \in Keys : Held = {k} => root = SingleEdge(k, ref[k])
    /\ Held = {} => root = Nil

\* a key is left alone by the delete of the key that differs from it in the
\* last bit only
C14_Witness ==
  /\ PutDeleteOnly
  /\ \E k \in Keys :
       /\ k % 2 = 0
       /\ Held = {k}
       /\ PutThenDelete(k + 1, k + 1)
       /\ hist[1].op = "put" /\ hist[1].key = k /\ hist[1].val # 0
       /\ root = SingleEdge(k, ref[k])

\* the history is one successful Put(k, v) on the empty trie
SinglePut(k, v) ==
  /\ Len(hist) = 1
  /\ Last.op = "put" /\ Last.err = "ok" /\ Last.key = k /\ Last.val = v

\* C15: the hash of a nil node is Felt0, the hash of a node with an empty
\* path is its bottom, the hash of any other node is Pedersen(bottom, path
\* as integer) plus the path length; so the root hash after the single
\* Put(1, 2) on an empty trie of height Height is P(2, 1) + Height
C15_NodeHash ==
  /\ root.isNil => RootHash(root) = Felt0 /\ Hash(root) = Felt0
  /\ (~root.isNil /\ Len(root.path) = 0) => RootHash(root) = root.bottom
  /\ (~root.isNil /\ Len(root.path) > 0) =>
       RootHash(root) = FeltAdd(Digest(root.bottom, FeltOf(PathBytes(root.path))),
                                Len(root.path))
  /\ \A k \in Keys, v \in Vals :
       SinglePut(k, v) => RootHash(root) = FeltAdd(Digest(FeltOf(v), FeltOf(k)), Height)
  /\ SinglePut(1, 2) => RootHash(root) = FeltAdd(Digest(<<2>>, <<1>>), Height)

C15_Witness ==
  /\ SinglePut(1, 2)
  /\ root.path = NewPath(Height, 1) /\ PathBytes(root.path) = 1
  /\ RootHash(root) = <<-2, Height, -1, 2, 1>>
  /\ RootHash(root) \in DOMAIN storeH

\* h is a Pedersen digest, as the bottom of every binary node is
IsDigest(h) == Len(h) > 1 /\ h[1] = 0 - 1

\* what node n is built from is in the store: for a binary node its preimage
\* entry and the two nodes the entry names, for an edge node the node that
\* the edge extends by one bit
BuiltFromStored(sH, sP, n) ==
  IF Len(n.path) = 0 THEN
    IsDigest(n.bottom) =>
      /\ retrieveByP(sP, n.bottom).err = "ok"
      /\ retrieveByP(sP, n.bottom).left \in DOMAIN sH
      /\ retrieveByP(sP, n.bottom).right \in DOMAIN sH
  ELSE Hash(Node(Walked(n.path, 1), n.bottom)) \in DOMAIN sH

\* at every point of a Put or Delete: each stored node was written after
\* what it is built from, each preimage entry after the two nodes it names,
\* the node about to be written has what it is built from in the store, and
\* the node the reverse walk holds between two bits is stored under the hash
\* kept for it
WritesOrdered ==
  /\ \A h \in DOMAIN storeH : BuiltFromStored(storeH, storeP, UnmarshalJSON(storeH[h]))
  /\ \A p \in DOMAIN storeP : storeP[p][1] \in DOMAIN storeH /\ storeP[p][2] \in DOMAIN storeH
  /\ run.pc = "hash" => BuiltFromStored(storeH, storeP, run.curr)
  /\ (run.pc \in {"node", "root"} /\ ~run.curr.isNil) =>
       run.hash = Hash(run.curr) /\ NodeStored(storeH, run.curr)
  /\ run.pc = "root" => run.i < 0

\* t.root is assigned by the last step of a call, after the reverse walk,
\* and no step removes a store entry
RootAssignedLast ==
  /\ root' # root =>
       /\ run.pc = "root" /\ run.i < 0 /\ run'.pc = "idle"
       /\ storeH' = storeH /\ storeP' = storeP
  /\ DOMAIN storeH \subseteq DOMAIN storeH'
  /\ DOMAIN storeP \subseteq DOMAIN storeP'

\* C16: during the reverse walk of Put and Delete every node is written
\* under its hash before a parent that refers to it, the preimage entry of a
\* binary node is written before that node, and the root of the trie is
\* replaced only after all the writes of the call
C16_WritesBottomUp == [](WritesOrdered) /\ [][RootAssignedLast]_vars

\* between the write of a preimage entry and the write of its binary node
C16_Witness ==
  /\ run.pc = "hash" /\ run.op = "put" /\ run.n = MaxRuns - 1
  /\ Len(run.curr.path) = 0
  /\ run.curr.bottom \in DOMAIN storeP
  /\ Hash(run.curr) \notin DOMAIN storeH
  /\ ~root.isNil /\ root # run.curr

----------------------------------------------------------------------------
\* Properties of the state update

RootMismatch == "panic: stateRoot not equal to the one provided"

\* the last step was a call of updateState
AfterUpdateState == last.op = "updateState"

\* C17: when the state root given with the update differs from the root
\* computed after the diff, the update fails with the root mismatch and
\* nothing that the diff wrote remains: the database is as before the call,
\* and so are the contract hashes
C17_MismatchLeavesNothing ==
  (AfterUpdateState /\ last.outcome = RootMismatch) =>
    /\ kv = last.kv
    /\ hashes = last.hashes

\* C18: a state update is all or nothing: when it fails, at whatever point,
\* none of the writes of the diff is visible; when it succeeds, the root of
\* the state trie and the contract hashes of the diff are stored
C18_AllOrNothing ==
  AfterUpdateState =>
    IF last.outcome = "ok"
    THEN /\ last.commitment = Felt0 \/ last.commitment \in DOMAIN kv.state.sH
         /\ \A i \in 1 .. Len(last.deployed) :
              hashes[last.deployed[i].address] = last.deployed[i].contractHash
    ELSE kv = last.kv /\ hashes = last.hashes

\* C19 as stated: the value persisted under the state root key for the root
\* R is read back by the next update as R
C19_StoredRootLoadsBack ==
  enc.pc = "loaded" => enc.loaded = enc.root

\* the counter of the database, as getNumericValueFromDB reads it
LatestBlock == getNumericValueFromDB(kv.latest)

\* the last step stored the counter after the update of block last.block
AfterSaveLatest == last.op = "saveLatest" /\ last.outcome = "ok"

----------------------------------------------------------------------------
\* Properties of updateState of pkg/starknet/utils.go

\* the last step was a call of updateState inside a transaction
AfterUpdateStateTxn == last.op = "updateStateTxn"

\* the root hash whose text is under StateRootKey in the database db
PersistedRoot(db) ==
  IF db.stateRoot = NilBytes THEN Felt0
  ELSE IF db.stateRoot[1] = TextMark THEN Tail(db.stateRoot)
  ELSE Felt0

\* the global trie of the database db: the trie with the persisted root
GlobalTrie(db) ==
  IF PersistedRoot(db) = Felt0 THEN Nil
  ELSE retrieveByH(db.state.sH, PersistedRoot(db)).node

\* what the global trie of db holds under the address a
GlobalLeaf(db, a) == Get(GlobalTrie(db), db.state.sH, db.state.sP, a)

\* the storage root of the address a in the database db: Felt0 when the
\* global trie does not hold a
StorageRootOf(db, a) ==
  IF GlobalLeaf(db, a).found /\ GlobalLeaf(db, a).val \in DOMAIN db.leaves
  THEN db.leaves[GlobalLeaf(db, a).val]
  ELSE Felt0

\* the last call had a diff that deploys one contract and nothing else, and
\* the state root given with it was none or the right one
DeployedOne ==
  /\ AfterUpdateStateTxn
  /\ Len(last.deployed) = 1
  /\ last.deployed[1].hashOk
  /\ last.storage = <<>>
  /\ last.outcome # RootMismatch

\* C21: a diff that deploys a contract succeeds, on a fresh store too, and
\* leaves under the address the leaf C(class_hash, storage root), where the
\* storage root is the one the address had before and Felt0 for an address
\* that the global trie did not hold
C21_DeployPutsContractState ==
  DeployedOne =>
    /\ last.outcome = "ok"
    /\ GlobalLeaf(kv, last.deployed[1].address) =
         [err |-> "ok", found |-> TRUE,
          val |-> contractState(FeltOf(last.deployed[1].contractHash),
                                StorageRootOf(last.kv, last.deployed[1].address))]

----------------------------------------------------------------------------
\* Properties of the storage diffs

\* the last call of Synchronizer.updateState returned
UpdateStateOk == AfterUpdateState /\ last.outcome = "ok"

\* the slot j of the list is the last one that writes its key
LastWrite(slots, j) == \A n \in (j + 1) .. Len(slots) : slots[n].key # slots[j].key

\* the storage trie of the address a of the Synchronizer holds what the
\* slots wrote
SlotsHeld(a, slots) ==
  \A j \in 1 .. Len(slots) :
    LastWrite(slots, j) =>
      Get(sync.storageTries[a], kv.storage[a].sH, kv.storage[a].sP, slots[j].key) =
        [err |-> "ok", found |-> TRUE, val |-> FeltOf(slots[j].value)]

\* what the state trie of the Synchronizer holds under the address a
StateLeaf(a) == Get(sync.stateTrie, kv.state.sH, kv.state.sP, a)

\* C22: after a successful state update every address of the storage diffs
\* has in the global trie the leaf C(class_hash, r): class_hash is the entry
\* of the contract hash index, r the root hash of the storage trie of the
\* address, which holds the values that the diff put
C22_StorageDiffLeaf ==
  UpdateStateOk =>
    \A i \in 1 .. Len(last.storage) :
      /\ SlotsHeld(last.storage[i].address, last.storage[i].slots)
      /\ StateLeaf(last.storage[i].address) =
           [err |-> "ok", found |-> TRUE,
            val |-> contractState(FeltOf(loadContractHash(hashes, last.storage[i].address)),
                                  RootHash(sync.storageTries[last.storage[i].address]))]

C22_Witness ==
  /\ UpdateStateOk
  /\ Len(last.storage) = 1
  /\ last.deployed = <<>>
  /\ last.storage[1].slots[1].value = 1
  /\ loadContractHash(hashes, last.storage[1].address) # NoContractHash
  /\ RootHash(sync.storageTries[last.storage[1].address]) # Felt0
  /\ StateLeaf(last.storage[1].address).found

\* the storage trie behind the leaf of the address a in the database db
StorageTrieAt(db, a) ==
  IF StorageRootOf(db, a) = Felt0 THEN Nil
  ELSE retrieveByH(db.state.sH, StorageRootOf(db, a)).node

\* what that storage trie holds under the key k
StorageSlot(db, a, k) == Get(StorageTrieAt(db, a), db.state.sH, db.state.sP, k)

\* the last call had a diff with storage diffs for one address and nothing
\* else, all of whose values are numbers, and the state root given with it
\* was none or the right one
WroteStorage ==
  /\ AfterUpdateStateTxn
  /\ last.deployed = <<>>
  /\ Len(last.storage) = 1
  /\ \A j \in 1 .. Len(last.storage[1].slots) : last.storage[1].slots[j].valueOk
  /\ last.outcome # RootMismatch

\* C23: a storage diff for an address is applied to the storage trie that
\* the earlier diffs left for the address (the empty one when there is
\* none): afterwards the storage trie behind the leaf of the address holds
\* the values of the diff and, under every other key, what it held before
C23_StorageAccumulates ==
  WroteStorage =>
    /\ last.outcome = "ok"
    /\ \A j \in 1 .. Len(last.storage[1].slots) :
         LastWrite(last.storage[1].slots, j) =>
           StorageSlot(kv, last.storage[1].address, last.storage[1].slots[j].key) =
             [err |-> "ok", found |-> TRUE, val |-> FeltOf(last.storage[1].slots[j].value)]
    /\ \A k \in Keys :
         (\A j \in 1 .. Len(last.storage[1].slots) : last.storage[1].slots[j].key # k) =>
           StorageSlot(kv, last.storage[1].address, k) =
             StorageSlot(last.kv, last.storage[1].address, k)

\* the last call had a diff that deploys the address of its one storage
\* diff, with a contract hash and slot values that are numbers
DeployedAndWrote ==
  /\ Len(last.deployed) = 1
  /\ Len(last.storage) = 1
  /\ last.deployed[1].address = last.storage[1].address
  /\ last.deployed[1].hashOk
  /\ \A j \in 1 .. Len(last.storage[1].slots) : last.storage[1].slots[j].valueOk
  /\ last.outcome # RootMismatch

\* C24: the deployed contracts of a diff are processed before its storage
\* diffs: a diff that deploys the address A with the class hash h and has
\* storage diffs for A leaves for A the leaf C(h, storage root after the
\* puts of the diff)
C24_DeployBeforeStorage ==
  (AfterUpdateStateTxn /\ DeployedAndWrote) =>
    /\ last.log = <<<<"deploy", last.deployed[1].address>>,
                    <<"storage", last.storage[1].address>>>>
    /\ last.outcome = "ok"
    /\ StorageRootOf(kv, last.deployed[1].address) # Felt0
    /\ GlobalLeaf(kv, last.deployed[1].address) =
         [err |-> "ok", found |-> TRUE,
          val |-> contractState(FeltOf(last.deployed[1].contractHash),
                                StorageRootOf(kv, last.deployed[1].address))]

----------------------------------------------------------------------------
\* Replay determinism

\* C25: two state processors that start from empty stores and are given the
\* same diffs have the same state root after every diff (and the same
\* outcome), whatever the order in which each of them visits the addresses
\* of the storage diffs
C25_ReplayDeterminism ==
  /\ replay.runs[1].outcome = replay.runs[2].outcome
  /\ replay.runs[1].commitment = replay.runs[2].commitment

C25_Witness ==
  /\ replay.n = MaxUpdates
  /\ replay.runs[1].visited = 2
  /\ replay.runs[1].reversed # replay.runs[2].reversed
  /\ replay.runs[1].outcome = "ok"
  /\ replay.runs[2].outcome = "ok"
  /\ replay.runs[1].commitment # Felt0
  /\ replay.runs[1].kv = replay.runs[2].kv

----------------------------------------------------------------------------
\* Failures of the store

\* C26: a Put or Delete one of whose store writes was failed by the
\* database does not report success
C26_FailedWriteIsReported ==
  \A i \in 1 .. Len(hist) : hist[i].arg = FailedWrite => hist[i].err # "ok"

\* the first fault on the way of a key down the trie: a binary node whose
\* preimage is missing or is not two felts long, or whose child on the side
\* of the key is not stored; sibling is the other child of the deepest binary
\* node passed, found whether the walk reached the leaf
NoFault == ""

RECURSIVE KeyFault(_, _, _, _, _, _)
KeyFault(sH, sP, path, walked, curr, sibling) ==
  IF walked >= Height THEN [fault |-> NoFault, sibling |-> sibling, found |-> TRUE]
  ELSE IF Len(curr.path) > 0 THEN
    IF EdgeMatches(curr, path, walked)
    THEN KeyFault(sH, sP, path, walked + Len(curr.path),
                  Node(EmptyPath, curr.bottom), sibling)
    ELSE [fault |-> NoFault, sibling |-> sibling, found |-> FALSE]
  ELSE IF curr.bottom \notin DOMAIN sP THEN
    [fault |-> "not found", sibling |-> sibling, found |-> FALSE]
  ELSE IF Len(sP[curr.bottom]) # 2 THEN
    [fault |-> "invalid value", sibling |-> sibling, found |-> FALSE]
  ELSE LET side == IF PathGet(path, walked) THEN 2 ELSE 1
           child == sP[curr.bottom][side]
       IN  IF child \notin DOMAIN sH THEN
             [fault |-> "not found", sibling |-> sibling, found |-> FALSE]
           ELSE KeyFault(sH, sP, path, walked + 1, UnmarshalJSON(sH[child]),
                         sP[curr.bottom][3 - side])

\* the fault a call of the history met; Delete also reads the sibling that
\* takes the place of the deleted leaf's parent
FaultOf(e) ==
  IF e.root.isNil THEN NoFault
  ELSE LET f == KeyFault(e.sH, e.sP, NewPath(Height, e.key), 0, e.root, NoHash)
       IN  IF f.fault # NoFault THEN f.fault
           ELSE IF e.op = "delete" /\ f.found /\ f.sibling # NoHash
                   /\ f.sibling \notin DOMAIN e.sH THEN "not found"
           ELSE NoFault

\* C27: a Get, Put or Delete that meets, on the way of its key, a binary node
\* whose preimage entry or child node is missing from the store returns the
\* not-found error, and one that meets a preimage entry of another length
\* than two felts returns the invalid-value error, each as retrieveByP and
\* retrieveByH made it.
C27_StoreFaultIsReturned ==
  \A i \in 1 .. Len(hist) : FaultOf(hist[i]) # NoFault => hist[i].err = FaultOf(hist[i])

\* both faults were met in one history, one of them by a call that writes
C27_Witness ==
  /\ \E i \in 1 .. Len(hist) :
       FaultOf(hist[i]) = "not found" /\ hist[i].err = "not found"
  /\ \E i \in 1 .. Len(hist) :
       FaultOf(hist[i]) = "invalid value" /\ hist[i].err = "invalid value"
  /\ \E i \in 1 .. Len(hist) : hist[i].op # "get" /\ FaultOf(hist[i]) # NoFault

----------------------------------------------------------------------------
\* Transactions and the two paths of the Synchronizer

\* C28: every Put that a state update makes on the state trie or on a
\* storage trie is made while the transaction of the database is open, on
\* the API path and on the path of the L1 memory pages, and one process runs
\* one of the two paths only, one update at a time.
C28_MutationsInTransaction ==
  /\ \A i \in 1 .. Len(last.muts) : last.muts[i].txn = "open"
  /\ last.op = "updateState" => sync.pc # "ticker"
  /\ last.op = "processMemoryPages" => sync.pc \in {"ticker", "dead"}

----------------------------------------------------------------------------
\* The JSON form of a node

\* C29: the node read back from the JSON text of a node whose path is no
\* longer than the height has the same path length, the same path bits and
\* the same bottom as the node, and so the same hash.
C29_JSONRoundTrip ==
  enc.pc = "back" =>
    /\ Len(enc.back.path) = Len(enc.node.path)
    /\ enc.back.path = enc.node.path
    /\ enc.back.bottom = enc.node.bottom
    /\ Hash(enc.back) = Hash(enc.node)

\* a path of the full height that starts with a zero bit, which its
\* hexadecimal text does not show, under a bottom of two digits, a letter
\* among them
C29_Witness ==
  /\ enc.pc = "back"
  /\ Len(enc.node.path) = Height /\ enc.node.path[1] = 0 /\ enc.node.path[Height] = 1
  /\ enc.node.bottom = FeltOf(MaxBottom)
  /\ enc.text.bottom = StringBytes(<<"0", "x", "1", "a">>)
  /\ enc.back = enc.node

----------------------------------------------------------------------------
\* The text of the state root

\* the bytes of the characters 0-9 and a-f
HexDigitBytes == (48 .. 57) \cup (97 .. 102)

\* text is the hexadecimal form of n in lower case, with no prefix and no
\* zero before its first digit
CanonicalHex(text, n) ==
  /\ Len(text) >= 1
  /\ \A i \in 1 .. Len(text) : text[i] \in HexDigitBytes
  /\ text[1] = 48 => Len(text) = 1
  /\ ParseHex(text) = n

\* the characters of str that remove0x keeps
Kept0x(str) == {i \in 1 .. Len(str) : str[i] \notin {"0", "x"}}

\* str from its first character that is neither 0 nor x
From0x(str) == SubSeq(str, CHOOSE i \in Kept0x(str) : \A j \in Kept0x(str) : i <= j, Len(str))

\* C30: the value put under the state root key is the hexadecimal text of
\* the root with no 0x before it and no leading zero, the one digit 0 for the
\* root zero; remove0x gives "0" for a string of no other characters than 0
\* and x and otherwise the string from its first other character on.
C30_StateRootText ==
  /\ enc.pc = "stored" => CanonicalHex(enc.stored, enc.root)
  /\ enc.called =>
       enc.out = IF Kept0x(enc.str) = {} THEN <<"0">> ELSE From0x(enc.str)

\* the root zero is stored as the one digit 0, and a string that has a zero
\* before and a zero after its first kept character is stripped
C30_Witness ==
  /\ enc.pc = "stored" /\ enc.root = 0 /\ enc.stored = <<48>>
  /\ enc.called /\ enc.str = <<"0", "x", "a", "0">> /\ enc.out = <<"a", "0">>

----------------------------------------------------------------------------
\* The store only grows

\* no step removes an entry of the store or gives it another value
EntriesKept ==
  /\ \A h \in DOMAIN storeH : h \in DOMAIN storeH' /\ storeH'[h] = storeH[h]
  /\ \A p \in DOMAIN storeP : p \in DOMAIN storeP' /\ storeP'[p] = storeP[p]

\* the root hashes that the trie had after its Puts and Deletes
PastRoots ==
  {hist[i].rh : i \in {j \in 1 .. Len(hist) : hist[j].op \in {"put", "delete"}}} \ {Felt0}

\* the trie of a past root hash opens, and every node below its root is read
PastRootsOpen ==
  \A rh \in PastRoots :
    /\ NewTrie(storeH, rh).err = "ok"
    /\ SubtreeStored(storeH, storeP, NewTrie(storeH, rh).root, 0)

\* C31: no Put and no Delete removes an entry of the store or changes its
\* value, so the trie of every root hash that was once valid still opens and
\* all its nodes are still read.
C31_StoreOnlyGrows == [][EntriesKept]_vars /\ [](PastRootsOpen)

\* a Delete has replaced the root of two Puts, whose tries are both still
\* in the store beside the new one
C31_Witness ==
  /\ Len(hist) = MaxOps
  /\ hist[MaxOps].op = "delete" /\ hist[MaxOps].err = "ok"
  /\ Cardinality(PastRoots) = MaxOps
  /\ PastRootsOpen
  /\ \E rh \in PastRoots : rh # RootHash(root) /\ Len(NewTrie(storeH, rh).root.path) = 0

----------------------------------------------------------------------------
\* A call that fails

\* the root of the trie when call i of the history had returned
RootAfter(i) == IF i < Len(hist) THEN hist[i + 1].root ELSE root

\* call i is a Put or a Delete that returned an error
Failed(i) == hist[i].op \in {"put", "delete"} /\ hist[i].err # "ok"

\* C33: a Put or a Delete that returns an error, met in the descent or when
\* Delete reads the sibling, leaves the root of the trie and its root hash
\* as they were before the call.
C33_ErrorKeepsRoot ==
  \A i \in 1 .. Len(hist) :
    Failed(i) => RootAfter(i) = hist[i].root /\ hist[i].rh = RootHash(hist[i].root)

\* a Delete found its key, failed to read the sibling that was to take the
\* place of the parent, and left the root that two Puts had built
C33_Witness ==
  \E i \in 1 .. Len(hist) :
    /\ hist[i].op = "delete" /\ hist[i].err = "not found"
    /\ KeyFault(hist[i].sH, hist[i].sP, NewPath(Height, hist[i].key), 0,
                hist[i].root, NoHash).fault = NoFault
    /\ ~hist[i].root.isNil /\ Len(hist[i].root.path) = 0
    /\ RootAfter(i) = hist[i].root

----------------------------------------------------------------------------
\* Termination of the descents

\* an iteration after which the loop goes on has walked further down the key
WalksOn ==
  (run.pc = "loop" /\ run'.pc = "loop") =>
    /\ run'.walked > run.walked
    /\ run'.op = run.op /\ run'.path = run.path

\* the bits walked, in the loop and after it
WalkedInHeight ==
  run.n > 0 => run.walked >= 0 /\ run.walked <= Height /\ run.iters <= Height + 1

\* C34: each iteration of the descent of Get, Put and Delete either walks
\* at least one more bit of the key or is the last of the loop, the bits
\* walked never exceed the height, and so every descent ends.
C34_DescentTerminates ==
  /\ [][WalksOn]_vars
  /\ [](WalkedInHeight)
  /\ (run.pc = "loop" ~> run.pc = "idle")

\* a Delete has left its loop at an edge that parts from its key, after a
\* binary node and without a further bit walked in its last iteration
C34_Witness ==
  /\ run.n > 0 /\ run.pc = "idle" /\ run.op = "delete"
  /\ run.iters = 2 /\ run.walked = 1 /\ run.curr.isNil
  /\ Len(root.path) = 0

----------------------------------------------------------------------------
\* The other addresses of a storage diff

----------------------------------------------------------------------------
\* The queue of facts of l1Sync

\* the facts taken off the queue, in the order in which they were taken
ConsumedFacts == [i \in 1 .. Len(l1.consumed) |-> l1.consumed[i].fact]

\* C36: the ticker takes the facts off the queue in the order in which
\* their events were received, each event once, a fact only when the
\* GpsVerifier dictionary has it, and s.blockNumber is the number of facts
\* taken so far.
C36_FactsInOrder ==
  /\ Len(l1.consumed) <= Len(l1.received)
  /\ ConsumedFacts = SubSeq(l1.received, 1, Len(l1.consumed))
  /\ l1.received =
       ConsumedFacts \o l1.facts
         \o (IF l1.epc \in {"lock", "append"} THEN <<l1.pending>> ELSE <<>>)
  /\ \A i \in 1 .. Len(l1.consumed) : l1.consumed[i].verified
  /\ l1.blockNumber = Len(l1.consumed)

\* two facts were taken in the order of their events while a third, of the
\* hash of the first, waits in the queue
C36_Witness ==
  /\ l1.received = <<2, 1, 2>>
  /\ ConsumedFacts = <<2, 1>>
  /\ l1.facts = <<2>>
  /\ l1.blockNumber = 2
  /\ l1.tpc = "tick"

\* C37: a fact is taken off the queue, and s.blockNumber advanced, only when
\* processMemoryPages applied the diff of the fact.
C37_ConsumedMeansApplied ==
  \A i \in 1 .. Len(l1.consumed) : l1.consumed[i].applied

\* C38: the ticker and the event loop read and write s.facts and
\* s.blockNumber under s.lock only.
C38_FactsUnderLock == l1.unlocked = {}

----------------------------------------------------------------------------
\* The blocks of apiSync

\* updateState returned nil for the block of sync.blockIterator: the diff is
\* applied and committed, the counter is not yet put
Applied ==
  /\ AfterUpdateState /\ last.outcome = "ok"
  /\ last.block = sync.blockIterator
  /\ RootHash(sync.stateTrie) = Felt0 \/ RootHash(sync.stateTrie) \in DOMAIN kv.state.sH

\* one step of apiSync: a call of updateStateForOneBlock up to the end of
\* updateState works on the block of blockIterator and returns nothing yet;
\* without an update it leaves the database, the tries and blockIterator as
\* they are; blockIterator moves, by one, only after the diff of its block
\* is applied and committed
OneBlockStep ==
  /\ sync'.n = sync.n + 1 =>
       /\ sync.pc = "fetch"
       /\ last'.block = sync.blockIterator
       /\ sync'.blockIterator = sync.blockIterator
       /\ last'.op = "fetch" =>
            /\ kv' = kv /\ hashes' = hashes
            /\ sync' = [sync EXCEPT !.n = sync.n + 1]
       /\ last'.op = "updateState" =>
            IF last'.outcome = "ok" THEN sync'.pc = "save" ELSE sync'.pc = "dead" /\ kv' = kv
  /\ (sync'.blockIterator # sync.blockIterator /\ last'.op # "restart") =>
       /\ sync.pc = "save" /\ Applied
       /\ sync'.blockIterator = sync.blockIterator + 1
       /\ kv'.state = kv.state

\* C39: updateStateForOneBlock returns blockIterator + 1 only after the diff
\* of block blockIterator is applied and committed; when the update is not
\* fetched or has the hash of the last block it returns its arguments and
\* writes nothing; so within a run the blocks are applied one after the
\* other, none skipped and none repeated.
C39_BlocksInOrder ==
  /\ [][OneBlockStep]_vars
  /\ [](sync.pc = "save" => Applied)

\* blocks 0 and 1 were applied in one run, each with a diff that wrote, and
\* the counter was put after block 0
C39_Witness ==
  /\ sync.n = 2 /\ sync.pc = "save" /\ Applied
  /\ sync.blockIterator = 1
  /\ kv.state # last.kv.state
  /\ LatestBlock.n = 1
  /\ last.kv.state # EmptyKV.state

\* C40: whenever the database holds the diff of block n, committed, the
\* counter of the same database makes apiSync, started again, go on after
\* block n.
C40_CounterFollowsState ==
  /\ (AfterUpdateState /\ last.outcome = "ok" /\ kv.state # last.kv.state) =>
       NewSynchronizer(kv).blockIterator = last.block + 1
  /\ last.op = "saveLatest" => NewSynchronizer(kv).blockIterator = last.block + 1

====
